---------------------------- MODULE Spec2Model ----------------------------
(***************************************************************************)
(* A model of the dividend-projection engine of dividend_tracker:          *)
(*   core/calculator.py   _detect_frequency, estimate_future_dividends,    *)
(*                        calculate_dividends                              *)
(*   api/dividend_api.py  get_dividend_data, get_current_price             *)
(*                                                                         *)
(* Time.  A datetime is an integer number of ticks, TicksPerDay ticks to   *)
(* the day, counted from 2024-01-01 00:00.  The average interval is a sum  *)
(* of whole days divided by 1, 2, 3 or 4, so a tick that divides a day by  *)
(* 12 represents every timedelta(days=avg_interval) exactly; the factor 5  *)
(* also makes tenths of a day (39.9, 99.9, 199.9) whole ticks.             *)
(*                                                                         *)
(* Money.  Amounts, prices and totals are integers (cents); a yield rate   *)
(* is an integer number of hundredths.  Products of the values drawn here  *)
(* are exact, so the float arithmetic of the code is modelled by exact     *)
(* arithmetic: rounding error of float addition is outside the model.      *)
(***************************************************************************)
EXTENDS Integers, Sequences, FiniteSets, TLC

VARIABLES
    now,                    \* the reading of datetime.now() during this run
    dividends,              \* estimate_future_dividends: argument `dividends`
    months_ahead,           \* argument `months_ahead`
    div_list,               \* local: the history sorted by date
    avg_interval,           \* local: mean interval, in ticks
    frequency,              \* local: the detected frequency
    last_date,              \* local
    last_amount,            \* local
    future_dividends,       \* local: the projected payments retained so far
    current_date,           \* local
    projection_end,         \* local
    next_date,              \* local: the next computed step
    result,                 \* the tuple estimate_future_dividends returned
    pc,                     \* position in the code
    portfolio,              \* calculate_dividends: argument (items in dict order)
    idx,                    \* calculate_dividends: index of the item being processed
    monthly_totals,         \* calculate_dividends: local
    dividend_details,       \* calculate_dividends: local
    stock_annual_dividends, \* calculate_dividends: local
    fetched,                \* what the provider answered for each symbol in this run
    ret,                    \* the tuple calculate_dividends returned
    events,                 \* the callbacks and provider fetches of the run, in order
    metrics,                \* calculate_metrics: local
    total_value,            \* calculate_metrics: local
    total_cost,             \* calculate_metrics: local
    mret,                   \* the tuple calculate_metrics returned
    files,                  \* data/historical: the content of each projection_*.json
    saved,                  \* what the last completed save wrote for each file
    last_op,                \* the last call on the snapshot store and what it returned
    writers,                \* two processes in save_historical: position, text, file offset
    finished,               \* the processes whose file is closed, in the order of closing
    historical_data,        \* the trend: the snapshots that were loaded, oldest first
    row,                    \* the trend: index of the snapshot being rendered
    prev_value,             \* the trend: local
    table,                  \* the trend: the rows added so far
    summary,                \* the trend: the period summary that was printed
    calls,                  \* the arguments of the calls that are compared
    market,                 \* what the provider answers for each symbol during these calls
    returns,                \* what each of these calls returned
    cache                   \* data/.cache: the dividends file and the price file of a symbol

vars == <<now, dividends, months_ahead, div_list, avg_interval, frequency,
          last_date, last_amount, future_dividends, current_date,
          projection_end, next_date, result, pc, portfolio, idx,
          monthly_totals, dividend_details, stock_annual_dividends,
          fetched, ret, events, metrics, total_value, total_cost, mret,
          files, saved, last_op, writers, finished,
          historical_data, row, prev_value, table, summary,
          calls, market, returns, cache>>

projVars == <<div_list, avg_interval, frequency, last_date, last_amount,
              future_dividends, current_date, projection_end, next_date>>

calcVars == <<portfolio, idx, monthly_totals, dividend_details,
              stock_annual_dividends, fetched, ret, events>>

metricVars == <<metrics, total_value, total_cost, mret>>

storeVars == <<files, saved, last_op>>

raceVars == <<writers, finished>>

\* the variables of what runs beside or after the calls on the snapshot store
trendVars == <<historical_data, row, prev_value, table, summary>>

\* the variables of calls that are compared with each other
callVars == <<calls, market, returns, cache>>

besideVars == <<raceVars, trendVars, callVars>>

\* the variables of the snapshot store and of what reads it
historyVars == <<storeVars, besideVars>>

\* the variables of the parts of the program that follow calculate_dividends
laterVars == <<metricVars, historyVars>>

\* the variables of the calculator
engineVars == <<now, dividends, months_ahead, result, pc, projVars, calcVars,
                metricVars>>

----------------------------------------------------------------------------
(* Representation *)

\* an optional value: None, or Some(x)
None == <<>>
Some(x) == <<x>>

TicksPerDay == 12 * 5

Days(n) == n * TicksPerDay

HalfDay == TicksPerDay \div 2

\* timedelta.days of a non-negative difference of two datetimes
TimedeltaDays(delta) == delta \div TicksPerDay

Min(a, b) == IF a < b THEN a ELSE b

RECURSIVE SumSeq(_)
SumSeq(s) == IF s = <<>> THEN 0 ELSE s[1] + SumSeq(Tail(s))

----------------------------------------------------------------------------
(* constants.py *)

MONTHLY_INTERVAL_MAX == 40
QUARTERLY_INTERVAL_MAX == 100
SEMI_ANNUAL_INTERVAL_MAX == 200
MAX_PROJECTED_DIVIDENDS == 20
DIVIDEND_HISTORY_YEARS == 2

----------------------------------------------------------------------------
(* calculator.py: _detect_frequency.  avg is in ticks. *)

DetectFrequencyInclusive(avg) ==
    IF avg <= Days(MONTHLY_INTERVAL_MAX) THEN "monthly"
    ELSE IF avg <= Days(QUARTERLY_INTERVAL_MAX) THEN "quarterly"
    ELSE IF avg <= Days(SEMI_ANNUAL_INTERVAL_MAX) THEN "semi-annual"
    ELSE "annual"

DetectFrequency(avg) ==
    IF avg < Days(MONTHLY_INTERVAL_MAX) THEN "monthly"
    ELSE IF avg < Days(QUARTERLY_INTERVAL_MAX) THEN "quarterly"
    ELSE IF avg < Days(SEMI_ANNUAL_INTERVAL_MAX) THEN "semi-annual"
    ELSE "annual"

----------------------------------------------------------------------------
(* calculator.py: estimate_future_dividends.  A payment is <<date, amount>>. *)

\* div_list.sort(key=lambda x: x[0]): ascending by date and stable, so the
\* payment at input place i lands after every payment dated earlier and
\* after every payment of the same date that was given before it.
SortByDate(s) ==
    LET Place(i) ==
            Cardinality({j \in 1..Len(s) :
                \/ s[j][1] < s[i][1]
                \/ s[j][1] = s[i][1] /\ j <= i})
    IN  [k \in 1..Len(s) |-> s[CHOOSE i \in 1..Len(s) : Place(i) = k]]

\* range(1, min(5, len)) over every gap instead of the latest four
IntervalsAllGaps(dl) ==
    [i \in 1..(Len(dl) - 1) |->
        TimedeltaDays(dl[Len(dl) - i + 1][1] - dl[Len(dl) - i][1])]

\* [(div_list[-i][0] - div_list[-i-1][0]).days for i in range(1, min(5, len))]
Intervals(dl) ==
    [i \in 1..(Min(5, Len(dl)) - 1) |->
        TimedeltaDays(dl[Len(dl) - i + 1][1] - dl[Len(dl) - i][1])]

\* sum(intervals) / len(intervals) days, as ticks (exact: len is 1..4)
AvgInterval(intervals) == (SumSeq(intervals) * TicksPerDay) \div Len(intervals)

UnknownResultAnnual == <<<<>>, "annual", 0>>

\* return [], "unknown", 0.0
UnknownResult == <<<<>>, "unknown", 0>>

\* dividends is None or len(dividends) < 2
TooShort(d) == d = None \/ Len(d[1]) < 2

LoopCondOffByOne(nd, pend, fut) ==
    nd <= pend /\ Len(fut) <= MAX_PROJECTED_DIVIDENDS

\* next_date <= projection_end and len(future_dividends) < MAX_PROJECTED_DIVIDENDS
LoopCond(nd, pend, fut) ==
    nd <= pend /\ Len(fut) < MAX_PROJECTED_DIVIDENDS

RetainInclusive(nd, cur) == nd >= cur

\* if next_date > current_date
Retain(nd, cur) == nd > cur

\* lines 53-79: from the entry to the loop head (or an early return)
EstimateEntry ==
    /\ pc = "estimate"
    /\ IF TooShort(dividends) \/ Intervals(SortByDate(dividends[1])) = <<>>
       THEN /\ result' = UnknownResult
            /\ pc' = "returned"
            /\ UNCHANGED projVars
       ELSE LET dl == SortByDate(dividends[1])
                avg == AvgInterval(Intervals(dl))
            IN  /\ div_list' = dl
                /\ avg_interval' = avg
                /\ frequency' = DetectFrequency(avg)
                /\ last_date' = dl[Len(dl)][1]
                /\ last_amount' = dl[Len(dl)][2]
                /\ future_dividends' = <<>>
                /\ current_date' = now
                /\ projection_end' = now + Days(30 * months_ahead)
                /\ next_date' = dl[Len(dl)][1] + avg
                /\ pc' = "loop"
                /\ UNCHANGED result
    /\ UNCHANGED <<now, dividends, months_ahead>>
    /\ UNCHANGED calcVars
    /\ UNCHANGED laterVars

\* line 80: the loop condition holds, enter the body
LoopTest ==
    /\ pc = "loop"
    /\ LoopCond(next_date, projection_end, future_dividends)
    /\ pc' = "body"
    /\ UNCHANGED <<now, dividends, months_ahead, result>>
    /\ UNCHANGED projVars
    /\ UNCHANGED calcVars
    /\ UNCHANGED laterVars

\* lines 81-83: the body of the while loop
LoopBody ==
    /\ pc = "body"
    /\ future_dividends' =
          IF Retain(next_date, current_date)
          THEN Append(future_dividends, <<next_date, last_amount>>)
          ELSE future_dividends
    /\ next_date' = next_date + avg_interval
    /\ pc' = "loop"
    /\ UNCHANGED <<now, dividends, months_ahead, div_list, avg_interval,
                   frequency, last_date, last_amount, current_date,
                   projection_end, result>>
    /\ UNCHANGED calcVars
    /\ UNCHANGED laterVars

\* line 85: the loop condition is false, return
LoopExit ==
    /\ pc = "loop"
    /\ ~LoopCond(next_date, projection_end, future_dividends)
    /\ result' = <<future_dividends, frequency, avg_interval>>
    /\ pc' = "returned"
    /\ UNCHANGED <<now, dividends, months_ahead>>
    /\ UNCHANGED projVars
    /\ UNCHANGED calcVars
    /\ UNCHANGED laterVars

----------------------------------------------------------------------------
(* The inputs of the projector *)

NowDay == 2 * 400

Now == Days(NowDay) + HalfDay

\* the i-th payment of an input history carries an amount of its own
AmountOf(i) == 20 + i

MaxHist == 3
MaxLongHist == 6
MaxMonths == 2

\* payment dates of the short histories: 60, 30 and 1 day before now, the
\* midnight before now, now, and one day after now
ShortDates == {Now - Days(60), Now - Days(30), Now - Days(1),
               Now - HalfDay, Now, Now + Days(1)}

\* payment dates of the long histories
LongDates == {Now - Days(91), Now - Days(61) - HalfDay, Now - Days(30)}

History(dates) == [i \in 1..Len(dates) |-> <<dates[i], AmountOf(i)>>]

ShortHistories ==
    {None} \cup
    UNION {{Some(History(ds)) : ds \in [1..n -> ShortDates]} : n \in 0..MaxHist}

LongHistories ==
    UNION {{Some(History(ds)) : ds \in [1..n -> LongDates]} : n \in 4..MaxLongHist}

InitLocals ==
    /\ div_list = <<>>
    /\ avg_interval = 0
    /\ frequency = "unset"
    /\ last_date = 0
    /\ last_amount = 0
    /\ future_dividends = <<>>
    /\ current_date = 0
    /\ projection_end = 0
    /\ next_date = 0
    /\ result = None

InitNoCalc ==
    /\ portfolio = <<>>
    /\ idx = 0
    /\ monthly_totals = <<>>
    /\ dividend_details = <<>>
    /\ stock_annual_dividends = <<>>
    /\ fetched = <<>>
    /\ ret = None
    /\ events = <<>>

InitMetrics ==
    /\ metrics = <<>>
    /\ total_value = 0
    /\ total_cost = 0
    /\ mret = None

\* no call on the snapshot store yet, and no snapshot
InitNoStore ==
    /\ files = <<>>
    /\ saved = <<>>
    /\ last_op = None

\* no process is saving
InitNoRace ==
    /\ writers = <<>>
    /\ finished = <<>>

\* no trend is rendered
InitNoTrend ==
    /\ historical_data = <<>>
    /\ row = 0
    /\ prev_value = None
    /\ table = <<>>
    /\ summary = None

\* no call is compared
InitNoCalls ==
    /\ calls = <<>>
    /\ market = <<>>
    /\ returns = <<>>
    /\ cache = <<>>

InitBeside ==
    /\ InitNoRace
    /\ InitNoTrend
    /\ InitNoCalls

InitLater ==
    /\ InitMetrics
    /\ InitNoStore
    /\ InitBeside

InitProj ==
    /\ now = Now
    /\ dividends = None
    /\ months_ahead = 0
    /\ pc = "start"
    /\ InitLocals
    /\ InitNoCalc
    /\ InitLater

\* a call estimate_future_dividends(dividends, months_ahead)
CallEstimate ==
    /\ pc = "start"
    /\ \/ dividends' \in ShortHistories /\ months_ahead' \in (-1)..MaxMonths
       \/ dividends' \in LongHistories /\ months_ahead' = 0
    /\ pc' = "estimate"
    /\ UNCHANGED <<now, result>>
    /\ UNCHANGED projVars
    /\ UNCHANGED calcVars
    /\ UNCHANGED laterVars

NextProj ==
    CallEstimate \/ EstimateEntry \/ LoopTest \/ LoopBody \/ LoopExit

SpecProj == InitProj /\ [][NextProj]_vars

\* once the loop is reached the interpreter keeps executing it: the loop
\* test, the body and the return are never postponed forever
LiveProj ==
    SpecProj /\ WF_vars(LoopTest) /\ WF_vars(LoopBody) /\ WF_vars(LoopExit)


----------------------------------------------------------------------------
(* Properties of the projector, checked under SpecProj and LiveProj *)

HasHistory == dividends # None /\ Len(dividends[1]) >= 2

InputLen == Len(dividends[1])

\* the k-th date of the chronologically sorted history, counted with repeats
KthDate(h, k) ==
    CHOOSE d \in {h[j][1] : j \in 1..Len(h)} :
        /\ Cardinality({j \in 1..Len(h) : h[j][1] < d}) < k
        /\ Cardinality({j \in 1..Len(h) : h[j][1] <= d}) >= k

\* how many gaps the claim averages: min(4, n - 1)
GapCount(h) == Min(4, Len(h) - 1)

\* the j-th most recent gap between consecutive payments, in ticks
RecentGap(h, j) == KthDate(h, Len(h) - j + 1) - KthDate(h, Len(h) - j)

\* C1: for every history of at least 2 payments and every months_ahead the
\* projection loop terminates, so estimate_future_dividends returns.
C1_LoopTerminates == (pc = "loop" /\ HasHistory) ~> (pc = "returned")

\* C2: estimate_future_dividends returns at most 20 projected payments, and
\* every returned date d satisfies now < d <= now + 30*months_ahead days.
C2_AtMost20InWindow ==
    pc = "returned" =>
        /\ Len(result[1]) <= 20
        /\ \A i \in 1..Len(result[1]) :
              /\ now < result[1][i][1]
              /\ result[1][i][1] <= now + Days(30 * months_ahead)

\* a run that returned 20 payments, the last one in the window
C2_CapReached == pc = "returned" /\ Len(result[1]) = 20

\* C4 as stated: the returned average interval is the arithmetic mean of the
\* min(4, n-1) most recent gaps of the chronologically sorted history.
C4_MeanOfRecentGaps ==
    (pc \in {"loop", "body", "returned"} /\ HasHistory) =>
        LET h == dividends[1]
            m == GapCount(h)
        IN  avg_interval * m = SumSeq([j \in 1..m |-> RecentGap(h, j)])

\* C4 as amended: the returned average interval is the arithmetic mean of the
\* min(4, n-1) most recent gaps of the chronologically sorted history, each
\* gap counted in whole days (its fraction of a day discarded); older gaps
\* never influence it, and neither does the input order.
C4_MeanOfRecentWholeDayGaps ==
    /\ (pc \in {"loop", "body", "returned"} /\ HasHistory) =>
          LET h == dividends[1]
              m == GapCount(h)
          IN  avg_interval * m =
                SumSeq([j \in 1..m |-> (RecentGap(h, j) \div TicksPerDay) * TicksPerDay])
    /\ (pc = "returned" /\ HasHistory) => result[3] = avg_interval

\* a history of 6 payments given out of order, with a positive average
C4_LongUnsortedHistory ==
    /\ pc = "returned"
    /\ HasHistory
    /\ InputLen = 6
    /\ div_list # dividends[1]
    /\ avg_interval > 0
    /\ RecentGap(dividends[1], 5) # RecentGap(dividends[1], 4)

\* C5: the returned sequence is, in strictly increasing date order, exactly
\* the payments (last_date + k*avg_interval, last_amount) for consecutive
\* k >= 1 that lie after now, last_date and last_amount being those of the
\* most recent historical payment.
C5_ConsecutiveStepsAfterNow ==
    (pc = "returned" /\ HasHistory) =>
        LET fut == result[1]
            avg == result[3]
            h == dividends[1]
        IN  /\ \E j \in 1..Len(h) : h[j] = <<last_date, last_amount>>
            /\ \A j \in 1..Len(h) : h[j][1] <= last_date
            /\ \A i \in 1..Len(fut) : fut[i][2] = last_amount /\ fut[i][1] > now
            /\ \A i \in 1..(Len(fut) - 1) :
                  /\ fut[i][1] < fut[i + 1][1]
                  /\ fut[i + 1][1] = fut[i][1] + avg
            /\ (fut # <<>> /\ avg > 0) =>
                  /\ (fut[1][1] - last_date) % avg = 0
                  /\ fut[1][1] - last_date >= avg
                  /\ fut[1][1] - avg = last_date \/ fut[1][1] - avg <= now

\* C6 as stated: a computed step equal to or before now occurs only at the
\* very first computed step, last_date + avg_interval.
C6_OnlyFirstStepDropped ==
    (pc = "body" /\ next_date <= current_date)
        => next_date = last_date + avg_interval

\* C6 as amended: a computed step equal to or before now is dropped without
\* affecting the iteration, such steps can occur at any number of the leading
\* computed steps, and once a computed step is strictly after now every later
\* computed step is strictly after now and, while the loop runs, is retained.
C6_DroppedStepsFormPrefix ==
    [][(pc = "body" /\ pc' = "loop") =>
          /\ next_date' = next_date + avg_interval
          /\ next_date <= current_date => future_dividends' = future_dividends
          /\ next_date > current_date =>
                /\ next_date' > current_date
                /\ future_dividends' =
                      Append(future_dividends, <<next_date, last_amount>>)]_vars

\* the loop is about to drop a step that is not the first computed step
C6_LaterStepDropped ==
    /\ pc = "body"
    /\ next_date <= current_date
    /\ next_date > last_date + avg_interval

\* C7: for a history that is None or has fewer than 2 payments the function
\* returns an empty projection, frequency 'unknown' and average interval 0,
\* whatever months_ahead is.
C7_ShortHistoryUnknown ==
    (pc = "returned" /\ ~HasHistory) => result = <<<<>>, "unknown", 0>>

\* a one-payment history, returned at the longest horizon
C7_OnePaymentReturned ==
    /\ pc = "returned"
    /\ dividends # None
    /\ InputLen = 1
    /\ months_ahead = MaxMonths

----------------------------------------------------------------------------
(* _detect_frequency on its own: SpecFreq *)

MaxIntervalDays == 250

InitFreq ==
    /\ now = Now
    /\ dividends = None
    /\ months_ahead = 0
    /\ pc = "freq_start"
    /\ InitLocals
    /\ InitNoCalc
    /\ InitLater

\* a call _detect_frequency(avg_interval), any interval up to MaxIntervalDays
CallDetect ==
    /\ pc = "freq_start"
    /\ avg_interval' \in 0..Days(MaxIntervalDays)
    /\ pc' = "detect"
    /\ UNCHANGED <<now, dividends, months_ahead, div_list, frequency,
                   last_date, last_amount, future_dividends, current_date,
                   projection_end, next_date, result>>
    /\ UNCHANGED calcVars
    /\ UNCHANGED laterVars

\* lines 30-36: the frequency is returned
DetectReturn ==
    /\ pc = "detect"
    /\ frequency' = DetectFrequency(avg_interval)
    /\ pc' = "detected"
    /\ UNCHANGED <<now, dividends, months_ahead, div_list, avg_interval,
                   last_date, last_amount, future_dividends, current_date,
                   projection_end, next_date, result>>
    /\ UNCHANGED calcVars
    /\ UNCHANGED laterVars

NextFreq == CallDetect \/ DetectReturn

SpecFreq == InitFreq /\ [][NextFreq]_vars

\* n tenths of a day, in ticks
Tenths(n) == n * (TicksPerDay \div 10)

FrequencyRank(f) ==
    CASE f = "monthly" -> 1
      [] f = "quarterly" -> 2
      [] f = "semi-annual" -> 3
      [] f = "annual" -> 4

\* the boundary values named by the claim, with the bucket each lands in
BoundarySamples ==
    { <<Tenths(399), "monthly">>, <<Tenths(400), "quarterly">>,
      <<Tenths(999), "quarterly">>, <<Tenths(1000), "semi-annual">>,
      <<Tenths(1999), "semi-annual">>, <<Tenths(2000), "annual">> }

\* C3: _detect_frequency classifies an average interval I by exclusive upper
\* bounds tested in order (I < 40 monthly, 40 <= I < 100 quarterly,
\* 100 <= I < 200 semi-annual, I >= 200 annual); the result is monotonic in
\* I, and 39.9/40.0/99.9/100.0/199.9/200.0 land in monthly/quarterly/
\* quarterly/semi-annual/semi-annual/annual.
C3_FrequencyThresholds ==
    pc = "detected" =>
        /\ avg_interval < Days(40) => frequency = "monthly"
        /\ (Days(40) <= avg_interval /\ avg_interval < Days(100))
              => frequency = "quarterly"
        /\ (Days(100) <= avg_interval /\ avg_interval < Days(200))
              => frequency = "semi-annual"
        /\ avg_interval >= Days(200) => frequency = "annual"
        /\ \A b \in BoundarySamples :
              /\ avg_interval = b[1] => frequency = b[2]
              /\ b[1] <= avg_interval
                    => FrequencyRank(b[2]) <= FrequencyRank(frequency)
              /\ b[1] >= avg_interval
                    => FrequencyRank(b[2]) >= FrequencyRank(frequency)
        /\ \A J \in {avg_interval - 1, avg_interval + 1} \cap 0..Days(MaxIntervalDays) :
              /\ J <= avg_interval =>
                    FrequencyRank(DetectFrequency(J)) <= FrequencyRank(frequency)
              /\ J >= avg_interval =>
                    FrequencyRank(DetectFrequency(J)) >= FrequencyRank(frequency)

\* the interval 40.0 days was classified
C3_BoundaryClassified ==
    pc = "detected" /\ avg_interval = Tenths(400) /\ frequency = "quarterly"

----------------------------------------------------------------------------
(* datetime.strftime("%B %Y"): the month name and the year of a datetime *)

IsLeapYear(y) == (y % 4 = 0 /\ y % 100 # 0) \/ y % 400 = 0

DaysInMonth(y, m) ==
    IF m = 2 THEN (IF IsLeapYear(y) THEN 28 + 1 ELSE 28)
    ELSE IF m \in {4, 6, 9, 11} THEN 30
    ELSE 31

MonthName(m) ==
    <<"January", "February", "March", "April", "May", "June", "July",
      "August", "September", "October", "November", "December">>[m]

\* the year and month of the day that lies `day` days after the 1st of
\* month m of year y
RECURSIVE YearMonthAfter(_, _, _)
YearMonthAfter(day, y, m) ==
    IF day < DaysInMonth(y, m) THEN <<y, m>>
    ELSE YearMonthAfter(day - DaysInMonth(y, m),
                        IF m = 12 THEN y + 1 ELSE y,
                        IF m = 12 THEN 1 ELSE m + 1)

EpochYear == 2024

\* div_date.strftime("%B %Y"), for a datetime t >= the epoch
MonthKey(t) ==
    LET ym == YearMonthAfter(t \div TicksPerDay, EpochYear, 1)
    IN  <<MonthName(ym[2]), ym[1]>>

----------------------------------------------------------------------------
(* api/dividend_api.py, as calculate_dividends sees it.  The run starts with *)
(* no cache entry, so every answer comes from the provider.                 *)

\* an answer of the provider: an exception, or the data it sent
ProviderError == [error |-> TRUE, data |-> <<>>]
ProviderData(x) == [error |-> FALSE, data |-> x]

\* bool(x) of an optional number: None and 0 are false
Truthy(o) == o # None /\ o[1] # 0

\* dividends[dividends.index >= cutoff_date]
SinceCutoff(series, cutoff) == SelectSeq(series, LAMBDA p : p[1] >= cutoff)

\* get_dividend_data: None when the provider fails or has no payment at all,
\* otherwise the payments of the last DIVIDEND_HISTORY_YEARS years
GetDividendData(answer, clock) ==
    IF answer.error THEN None
    ELSE IF answer.data = <<>> THEN None
    ELSE Some(SinceCutoff(answer.data, clock - Days(365 * DIVIDEND_HISTORY_YEARS)))

\* a or b: a when a is truthy, else b
PyOr(a, b) == IF Truthy(a) THEN a ELSE b

\* the stale price: a failure answered with a price
GetCurrentPriceOnFailure(info) ==
    IF info.error THEN Some(10000)
    ELSE PyOr(PyOr(info.data.currentPrice, info.data.regularMarketPrice),
              info.data.previousClose)

\* get_current_price: the first truthy of currentPrice, regularMarketPrice,
\* previousClose (else the last of them); None when the provider fails
GetCurrentPrice(info) ==
    IF info.error THEN None
    ELSE PyOr(PyOr(info.data.currentPrice, info.data.regularMarketPrice),
              info.data.previousClose)

\* get_yield_rate: the trailing yield rate of the provider, or None when it
\* is unavailable or the fetch fails
GetYieldRate(answer) ==
    IF answer.error THEN None
    ELSE answer.data

----------------------------------------------------------------------------
(* calculator.py: calculate_dividends *)

\* a yield rate is a number of hundredths
RateScale == 10 * 10

AnnualFromYieldNoShares(price, yield_rate, shares) ==
    (price * yield_rate) \div RateScale

\* annual_div = price * yield_rate * shares
AnnualFromYield(price, yield_rate, shares) ==
    (price * yield_rate * shares) \div RateScale

AnnualFromProjectionPerShare(fut, shares) ==
    SumSeq([i \in 1..Len(fut) |-> fut[i][2]])

\* annual_div = sum(amount * shares for _, amount in future_dividends)
AnnualFromProjection(fut, shares) ==
    SumSeq([i \in 1..Len(fut) |-> fut[i][2] * shares])

\* d[k] = v
SetKey(d, k, v) == [x \in DOMAIN d \cup {k} |-> IF x = k THEN v ELSE d[x]]

AddToMonthOverwrite(mt, key, total) == SetKey(mt, key, total)

\* monthly_totals[month_key] += total, on a defaultdict(float)
AddToMonth(mt, key, total) ==
    SetKey(mt, key, (IF key \in DOMAIN mt THEN mt[key] ELSE 0) + total)

\* lines 151-154 over the first n projected payments
RECURSIVE MonthlyAfter(_, _, _, _)
MonthlyAfter(mt, fut, shares, n) ==
    IF n = 0 THEN mt
    ELSE AddToMonth(MonthlyAfter(mt, fut, shares, n - 1),
                    MonthKey(fut[n][1]), fut[n][2] * shares)

\* lines 156-164: one DividendDetail per projected payment
DetailsOf(symbol, fut, shares) ==
    [i \in 1..Len(fut) |->
        [symbol |-> symbol, date |-> fut[i][1], amount_per_share |-> fut[i][2],
         shares |-> shares, total |-> fut[i][2] * shares]]

CurSymbol == portfolio[idx][1]
CurShares == portfolio[idx][2].shares

\* what the provider answered for a symbol in this run
\* and which of its fetches failed
Answers(d, yield_asked, yield_rate, price_asked, price, failed) ==
    [dividends |-> d, yield_asked |-> yield_asked, yield_rate |-> yield_rate,
     price_asked |-> price_asked, price |-> price, failed |-> failed]

\* the fetches that raised inside the api functions
FailedOf(kind, answer) == IF answer.error THEN {kind} ELSE {}

\* dividends is None or dividends.empty
NoHistory(d) == IF d = None THEN TRUE ELSE d[1] = <<>>

\* the portfolios, provider answers and horizons of the runs

Symbols == {"AAA", "BBB"}

SharesValues == {None, Some(5), Some(10)}

MaxCalcMonths == 3

\* midnight, k days before today
Midnight(k) == Now - HalfDay - Days(k)

\* the ex-dividend dates the provider may report, oldest first; the first is
\* older than the two-year cutoff
ProviderDates == <<Midnight(800), Midnight(91), Midnight(60), Midnight(30)>>

\* the payments at the chosen places of ProviderDates, oldest first
RECURSIVE PickDates(_, _)
PickDates(chosen, k) ==
    IF k = 0 THEN <<>>
    ELSE IF k \in chosen THEN Append(PickDates(chosen, k - 1), ProviderDates[k])
    ELSE PickDates(chosen, k - 1)

DividendAnswers ==
    {ProviderError} \cup
    {ProviderData(History(PickDates(c, Len(ProviderDates)))) :
        c \in SUBSET (1..Len(ProviderDates))}

YieldAnswers ==
    {ProviderError, ProviderData(None), ProviderData(Some(0)), ProviderData(Some(2))}

PriceAnswers ==
    {ProviderError} \cup
    {ProviderData([currentPrice |-> a, regularMarketPrice |-> b,
                   previousClose |-> c]) :
        a \in {None, Some(10000)}, b \in {None, Some(0)},
        c \in {None, Some(0), Some(9900)}}

\* every order of every non-empty choice of symbols, with any shares
Portfolios ==
    UNION {{p \in [1..n -> Symbols \X [shares : SharesValues, cost_basis : {None}]] :
               \A i, j \in 1..n : i # j => p[i][1] # p[j][1]} :
           n \in 1..Cardinality(Symbols)}

Init ==
    /\ now = Now
    /\ dividends = None
    /\ months_ahead = 0
    /\ pc = "calc_start"
    /\ InitLocals
    /\ InitNoCalc
    /\ InitLater

\* a call calculate_dividends(portfolio, months_ahead); lines 113-115
CallCalculate ==
    /\ pc = "calc_start"
    /\ portfolio' \in Portfolios
    /\ months_ahead' \in 1..MaxCalcMonths
    /\ monthly_totals' = <<>>
    /\ dividend_details' = <<>>
    /\ stock_annual_dividends' = <<>>
    /\ fetched' = <<>>
    /\ events' = <<>>
    /\ idx' = 1
    /\ pc' = "for"
    /\ UNCHANGED <<now, dividends, result, ret>>
    /\ UNCHANGED projVars
    /\ UNCHANGED laterVars

\* lines 117-120: a position without shares is skipped
ForSkip ==
    /\ pc = "for"
    /\ idx <= Len(portfolio)
    /\ CurShares = None
    /\ idx' = idx + 1
    /\ UNCHANGED <<now, dividends, months_ahead, result, pc, portfolio,
                   monthly_totals, dividend_details, stock_annual_dividends,
                   fetched, ret, events>>
    /\ UNCHANGED projVars
    /\ UNCHANGED laterVars

\* lines 130-138 on the answers of the provider: what the fallback leaves in
\* stock_annual_dividends
FallbackUpdate(answer, ya, info) ==
    LET d == GetDividendData(answer, now)
        yield_rate == GetYieldRate(ya)
        price == GetCurrentPrice(info)
    IN  /\ NoHistory(d)
        /\ stock_annual_dividends' =
              IF Truthy(yield_rate) /\ Truthy(price)
              THEN SetKey(stock_annual_dividends, CurSymbol,
                          AnnualFromYield(price[1], yield_rate[1], CurShares[1]))
              ELSE stock_annual_dividends

\* what FallbackUpdate asked the provider, and what came back
FallbackFetched(answer, ya, info) ==
    LET d == GetDividendData(answer, now)
        yield_rate == GetYieldRate(ya)
    IN  IF Truthy(yield_rate)
        THEN Answers(d, TRUE, yield_rate, TRUE, GetCurrentPrice(info),
                     FailedOf("history", answer) \cup FailedOf("yield", ya)
                         \cup FailedOf("price", info))
        ELSE Answers(d, TRUE, yield_rate, FALSE, None,
                     FailedOf("history", answer) \cup FailedOf("yield", ya))

\* a callback that was called, or a function of the api or the projector
\* that was called, for a symbol
Event(kind, symbol) == [kind |-> kind, symbol |-> symbol]

\* lines 122-135 in the order of the code, when the symbol has no history;
\* both callbacks are given
FallbackEvents(symbol, yield_rate) ==
    <<Event("on_symbol_start", symbol), Event("get_dividend_data", symbol),
      Event("get_yield_rate", symbol)>>
    \o (IF Truthy(yield_rate) THEN <<Event("get_current_price", symbol)>> ELSE <<>>)

HistoryEventsFetchFirst(symbol) ==
    <<Event("get_dividend_data", symbol), Event("on_symbol_start", symbol),
      Event("estimate_future_dividends", symbol)>>

\* lines 122-142 in the order of the code, when the symbol has a history
HistoryEvents(symbol) ==
    <<Event("on_symbol_start", symbol), Event("get_dividend_data", symbol),
      Event("estimate_future_dividends", symbol)>>

\* lines 127-138: no history for the symbol, the yield-rate fallback
ForFallback ==
    /\ pc = "for"
    /\ idx <= Len(portfolio)
    /\ CurShares # None
    /\ \E answer \in DividendAnswers, ya \in YieldAnswers, info \in PriceAnswers :
          /\ FallbackUpdate(answer, ya, info)
          /\ fetched' = SetKey(fetched, CurSymbol, FallbackFetched(answer, ya, info))
          /\ events' = events \o FallbackEvents(CurSymbol, GetYieldRate(ya))
    /\ idx' = idx + 1
    /\ UNCHANGED <<now, dividends, months_ahead, result, pc, portfolio,
                   monthly_totals, dividend_details, ret>>
    /\ UNCHANGED projVars
    /\ UNCHANGED laterVars

\* lines 127-142: the symbol has a history, estimate_future_dividends is called;
\* the provider answers with one of `answers`
ForHistoryOf(answers) ==
    /\ pc = "for"
    /\ idx <= Len(portfolio)
    /\ CurShares # None
    /\ \E answer \in answers :
          LET d == GetDividendData(answer, now)
          IN  /\ ~NoHistory(d)
              /\ dividends' = d
              /\ fetched' = SetKey(fetched, CurSymbol,
                                   Answers(d, FALSE, None, FALSE, None,
                                           FailedOf("history", answer)))
    /\ events' = events \o HistoryEvents(CurSymbol)
    /\ pc' = "estimate"
    /\ UNCHANGED <<now, months_ahead, result, portfolio, idx, monthly_totals,
                   dividend_details, stock_annual_dividends, ret>>
    /\ UNCHANGED projVars
    /\ UNCHANGED laterVars

ForHistory == ForHistoryOf(DividendAnswers)

\* lines 140-164: the projection returned; the totals of the symbol
Aggregate ==
    /\ pc = "returned"
    /\ idx >= 1
    /\ LET fut == result[1]
           shares == CurShares[1]
       IN  /\ stock_annual_dividends' =
                 SetKey(stock_annual_dividends, CurSymbol,
                        AnnualFromProjection(fut, shares))
           /\ monthly_totals' = MonthlyAfter(monthly_totals, fut, shares, Len(fut))
           /\ dividend_details' =
                 dividend_details \o DetailsOf(CurSymbol, fut, shares)
    /\ idx' = idx + 1
    /\ pc' = "for"
    \* the frame of estimate_future_dividends is gone
    /\ dividends' = None
    /\ result' = None
    /\ div_list' = <<>>
    /\ avg_interval' = 0
    /\ frequency' = "unset"
    /\ last_date' = 0
    /\ last_amount' = 0
    /\ future_dividends' = <<>>
    /\ current_date' = 0
    /\ projection_end' = 0
    /\ next_date' = 0
    \* lines 144-145: on_symbol_data
    /\ events' = Append(events, Event("on_symbol_data", CurSymbol))
    /\ UNCHANGED <<now, months_ahead, portfolio, fetched, ret>>
    /\ UNCHANGED laterVars

\* line 166: every position was processed
ForDone ==
    /\ pc = "for"
    /\ idx > Len(portfolio)
    /\ ret' = <<monthly_totals, dividend_details, stock_annual_dividends>>
    /\ pc' = "done"
    /\ UNCHANGED <<now, dividends, months_ahead, result, portfolio, idx,
                   monthly_totals, dividend_details, stock_annual_dividends,
                   fetched, events>>
    /\ UNCHANGED projVars
    /\ UNCHANGED laterVars

----------------------------------------------------------------------------
(* calculator.py: calculate_metrics *)

CostBasisValues == {None, Some(0), Some(8000)}

\* the portfolios of the calculate_metrics runs: as Portfolios, with any cost basis
MetricPortfolios ==
    UNION {{p \in [1..n -> Symbols \X [shares : SharesValues,
                                       cost_basis : CostBasisValues]] :
               \A i, j \in 1..n : i # j => p[i][1] # p[j][1]} :
           n \in 1..Cardinality(Symbols)}

CurCostBasis == portfolio[idx][2].cost_basis

\* (part / whole) * 100, a percentage in hundredths of a percent
PercentOf(part, whole) == (part * 100 * RateScale) \div whole

\* lines 199-219: the metrics of a position with a price
MetricOf(shares, current_price, cost_basis_per_share) ==
    LET current_value == shares * current_price
        cost_basis == shares * cost_basis_per_share[1]
        gain_loss == current_value - cost_basis
    IN  IF Truthy(cost_basis_per_share)
        THEN [shares |-> Some(shares),
              current_price |-> Some(current_price),
              current_value |-> Some(current_value),
              cost_basis |-> Some(cost_basis),
              gain_loss |-> Some(gain_loss),
              gain_loss_pct |-> Some(IF cost_basis > 0
                                     THEN PercentOf(gain_loss, cost_basis)
                                     ELSE 0)]
        ELSE [shares |-> Some(shares),
              current_price |-> Some(current_price),
              current_value |-> Some(current_value),
              cost_basis |-> None,
              gain_loss |-> None,
              gain_loss_pct |-> None]

\* a call calculate_metrics(portfolio); lines 183-185
CallMetrics ==
    /\ pc = "calc_start"
    /\ portfolio' \in MetricPortfolios
    /\ idx' = 1
    /\ metrics' = <<>>
    /\ total_value' = 0
    /\ total_cost' = 0
    /\ fetched' = <<>>
    /\ pc' = "metrics_for"
    /\ UNCHANGED <<now, dividends, months_ahead, result, monthly_totals,
                   dividend_details, stock_annual_dividends, ret, events,
                   mret>>
    /\ UNCHANGED projVars
    /\ UNCHANGED historyVars

\* lines 187-192: a position without shares is skipped
MetricsSkip ==
    /\ pc = "metrics_for"
    /\ idx <= Len(portfolio)
    /\ CurShares = None
    /\ idx' = idx + 1
    /\ UNCHANGED <<now, dividends, months_ahead, result, pc, portfolio,
                   monthly_totals, dividend_details, stock_annual_dividends,
                   fetched, ret, events>>
    /\ UNCHANGED projVars
    /\ UNCHANGED metricVars
    /\ UNCHANGED historyVars

\* lines 194-219 on the answer of the provider: what the position leaves in
\* metrics, total_value and total_cost
MetricsUpdate(info) ==
    LET current_price == GetCurrentPrice(info)
    IN  IF ~Truthy(current_price)
        THEN UNCHANGED <<metrics, total_value, total_cost>>
        ELSE /\ total_value' = total_value + CurShares[1] * current_price[1]
             /\ total_cost' =
                   IF Truthy(CurCostBasis)
                   THEN total_cost + CurShares[1] * CurCostBasis[1]
                   ELSE total_cost
             /\ metrics' = SetKey(metrics, CurSymbol,
                                  MetricOf(CurShares[1], current_price[1], CurCostBasis))

\* lines 194-221: a position with shares
MetricsStep ==
    /\ pc = "metrics_for"
    /\ idx <= Len(portfolio)
    /\ CurShares # None
    /\ \E info \in PriceAnswers :
          /\ MetricsUpdate(info)
          /\ fetched' = SetKey(fetched, CurSymbol,
                               Answers(None, FALSE, None, TRUE, GetCurrentPrice(info),
                                       FailedOf("price", info)))
    /\ idx' = idx + 1
    /\ UNCHANGED <<now, dividends, months_ahead, result, pc, portfolio,
                   monthly_totals, dividend_details, stock_annual_dividends,
                   ret, events, mret>>
    /\ UNCHANGED projVars
    /\ UNCHANGED historyVars

\* line 223: every position was processed
MetricsDone ==
    /\ pc = "metrics_for"
    /\ idx > Len(portfolio)
    /\ mret' = <<metrics, total_value, total_cost>>
    /\ pc' = "metrics_done"
    /\ UNCHANGED <<now, dividends, months_ahead, result, portfolio, idx,
                   monthly_totals, dividend_details, stock_annual_dividends,
                   fetched, ret, events, metrics, total_value, total_cost>>
    /\ UNCHANGED projVars
    /\ UNCHANGED historyVars

Next ==
    \/ CallCalculate
    \/ ForSkip
    \/ ForFallback
    \/ ForHistory
    \/ EstimateEntry
    \/ LoopTest
    \/ LoopBody
    \/ LoopExit
    \/ Aggregate
    \/ ForDone
    \/ CallMetrics
    \/ MetricsSkip
    \/ MetricsStep
    \/ MetricsDone

Spec == Init /\ [][Next]_vars

----------------------------------------------------------------------------
(* the result of calculate_dividends *)

RECURSIVE SumValues(_, _)
SumValues(f, keys) ==
    IF keys = {} THEN 0
    ELSE LET k == CHOOSE x \in keys : TRUE
         IN  f[k] + SumValues(f, keys \ {k})

\* the sum of the total field over the details at the places `at`
SumTotalsAt(details, at) ==
    SumValues([i \in 1..Len(details) |-> details[i].total], at)

\* the places of the details that fall in a month, and of those of a symbol
PlacesOfMonth(details, key) ==
    {i \in 1..Len(details) : MonthKey(details[i].date) = key}

PlacesOfSymbol(details, symbol) ==
    {i \in 1..Len(details) : details[i].symbol = symbol}

\* the shares the portfolio holds of a symbol
SharesOf(symbol) ==
    portfolio[CHOOSE i \in 1..Len(portfolio) : portfolio[i][1] = symbol][2].shares[1]

\* stock_annual_dividends.get(symbol, 0), as every reader of the result reads it
AnnualOf(annual, symbol) ==
    IF symbol \in DOMAIN annual THEN annual[symbol] ELSE 0

\* the symbols of the run that came back with a history, and without
WithHistory == {sym \in DOMAIN fetched : ~NoHistory(fetched[sym].dividends)}
WithoutHistory == {sym \in DOMAIN fetched : NoHistory(fetched[sym].dividends)}

\* C8: in the result of calculate_dividends the monthly totals sum to the
\* sum of the details' totals, every detail's total is amount_per_share *
\* shares, and every month holds exactly the totals of the details dated in it
C8_MonthlyConservation ==
    pc = "done" =>
        LET totals == ret[1]
            details == ret[2]
        IN  /\ SumValues(totals, DOMAIN totals)
                  = SumTotalsAt(details, 1..Len(details))
            /\ \A i \in 1..Len(details) :
                  /\ details[i].total = details[i].amount_per_share * details[i].shares
                  /\ MonthKey(details[i].date) \in DOMAIN totals
            /\ \A key \in DOMAIN totals :
                  /\ PlacesOfMonth(details, key) # {}
                  /\ totals[key] = SumTotalsAt(details, PlacesOfMonth(details, key))

\* two symbols pay in the same month of the result
C8_TwoSymbolsShareMonth ==
    /\ pc = "done"
    /\ \E i, j \in 1..Len(ret[2]) :
          /\ ret[2][i].symbol # ret[2][j].symbol
          /\ MonthKey(ret[2][i].date) = MonthKey(ret[2][j].date)

\* C9: a symbol that came back with a non-empty history has an annual total
\* equal to the sum of amount_per_share * shares over its own projected
\* payments, all of them in the months_ahead window, and its yield rate was
\* never asked for
C9_AnnualFromOwnProjection ==
    pc = "done" =>
        \A sym \in WithHistory :
            LET details == ret[2]
                own == PlacesOfSymbol(details, sym)
            IN  /\ sym \in DOMAIN ret[3]
                /\ ret[3][sym] =
                      SumValues([i \in 1..Len(details) |->
                                    details[i].amount_per_share * SharesOf(sym)], own)
                /\ \A i \in own :
                      /\ details[i].date > now
                      /\ details[i].date <= now + Days(30 * months_ahead)
                      /\ details[i].shares = SharesOf(sym)
                /\ ~fetched[sym].yield_asked
                /\ ~fetched[sym].price_asked

\* a symbol with a history has several projected payments in the result
C9_SeveralPaymentsSummed ==
    /\ pc = "done"
    /\ \E sym \in WithHistory :
          /\ Cardinality(PlacesOfSymbol(ret[2], sym)) >= 2
          /\ ret[3][sym] > 0

\* C10: a symbol that came back without a history has no detail and no month
\* of its own; with a yield rate and a price its annual total is
\* price * yield_rate * shares, without a yield rate it has none
C10_YieldFallback ==
    pc = "done" =>
        \A sym \in WithoutHistory :
            LET f == fetched[sym]
            IN  /\ PlacesOfSymbol(ret[2], sym) = {}
                /\ \A key \in DOMAIN ret[1] :
                      \E i \in PlacesOfMonth(ret[2], key) : ret[2][i].symbol \in WithHistory
                /\ (f.yield_rate # None /\ f.price_asked /\ f.price # None) =>
                      AnnualOf(ret[3], sym) =
                          (f.price[1] * f.yield_rate[1] * SharesOf(sym)) \div RateScale
                /\ (Truthy(f.yield_rate) /\ Truthy(f.price)) => sym \in DOMAIN ret[3]
                /\ f.yield_rate = None =>
                      /\ sym \notin DOMAIN ret[3]
                      /\ AnnualOf(ret[3], sym) = 0

\* price 100.00, yield 0.02 and 10 shares gave 20.00
C10_TwentyDollars ==
    /\ pc = "done"
    /\ \E sym \in WithoutHistory :
          /\ fetched[sym].price = Some(10000)
          /\ fetched[sym].yield_rate = Some(2)
          /\ SharesOf(sym) = 10
          /\ sym \in DOMAIN ret[3]
          /\ ret[3][sym] = 2000

----------------------------------------------------------------------------
(* provider failures *)

\* the answers of a provider that has nothing for the symbol
NoDividends == ProviderData(<<>>)
NoYield == ProviderData(None)
NoPrice == ProviderData([currentPrice |-> None, regularMarketPrice |-> None,
                         previousClose |-> None])

\* the answer with a failure replaced by "no data"
OrNoData(answer, nodata) == IF answer.error THEN nodata ELSE answer

\* the answers of the provider that explain what a step recorded in f
DividendAnswersOf(f) ==
    {a \in DividendAnswers :
        /\ a.error <=> "history" \in f.failed
        /\ GetDividendData(a, now) = f.dividends}

YieldAnswersOf(f) ==
    {a \in YieldAnswers :
        /\ a.error <=> "yield" \in f.failed
        /\ GetYieldRate(a) = f.yield_rate}

PriceAnswersOf(f) ==
    IF f.price_asked
    THEN {a \in PriceAnswers :
             /\ a.error <=> "price" \in f.failed
             /\ GetCurrentPrice(a) = f.price}
    ELSE {NoPrice}

\* a step of the loop of calculate_dividends in which a fetch failed
DividendFetchFailed ==
    /\ pc = "for"
    /\ fetched' # fetched
    /\ fetched'[CurSymbol].failed # {}

\* a step of the loop of calculate_metrics in which the price fetch failed
PriceFetchFailed ==
    /\ pc = "metrics_for"
    /\ fetched' # fetched
    /\ fetched'[CurSymbol].failed # {}

\* C11: a step in which a fetch for the symbol failed goes on to the next
\* position and leaves every total, detail and metric exactly as the same
\* step does when the provider has no data in place of the failure
C11_FailureIsNoData ==
    [][/\ DividendFetchFailed =>
             /\ pc' = "for"
             /\ idx' = idx + 1
             /\ monthly_totals' = monthly_totals
             /\ dividend_details' = dividend_details
             /\ \A a \in DividendAnswersOf(fetched'[CurSymbol]),
                   y \in YieldAnswersOf(fetched'[CurSymbol]),
                   i \in PriceAnswersOf(fetched'[CurSymbol]) :
                   FallbackUpdate(OrNoData(a, NoDividends), OrNoData(y, NoYield),
                                  OrNoData(i, NoPrice))
       /\ PriceFetchFailed =>
             /\ pc' = "metrics_for"
             /\ idx' = idx + 1
             /\ \A i \in PriceAnswersOf(fetched'[CurSymbol]) :
                   MetricsUpdate(OrNoData(i, NoPrice))]_vars

\* the history fetch of the first symbol failed and the second symbol has
\* its projected payments in the result
C11_FailureThenPayments ==
    /\ pc = "done"
    /\ Len(portfolio) = 2
    /\ portfolio[1][1] \in DOMAIN fetched
    /\ "history" \in fetched[portfolio[1][1]].failed
    /\ PlacesOfSymbol(ret[2], portfolio[2][1]) # {}
    /\ AnnualOf(ret[3], portfolio[2][1]) > 0

----------------------------------------------------------------------------
(* dates as text: strftime("%Y-%m-%d") and strptime(text, "%Y-%m-%d").  A   *)
(* text is a sequence of characters; a date text is <<year, month, day>>,  *)
(* the three texts the hyphens separate.                                   *)

\* the year, month and day of month of the day that lies `day` days after
\* the 1st of month m of year y
RECURSIVE DateAfter(_, _, _)
DateAfter(day, y, m) ==
    IF day < DaysInMonth(y, m) THEN <<y, m, day + 1>>
    ELSE DateAfter(day - DaysInMonth(y, m),
                   IF m = 12 THEN y + 1 ELSE y,
                   IF m = 12 THEN 1 ELSE m + 1)

DateOf(t) == DateAfter(t \div TicksPerDay, EpochYear, 1)

\* the days from the epoch to the 1st of month m of year y >= EpochYear
RECURSIVE DaysBefore(_, _)
DaysBefore(y, m) ==
    IF y = EpochYear /\ m = 1 THEN 0
    ELSE LET py == IF m = 1 THEN y - 1 ELSE y
             pm == IF m = 1 THEN 12 ELSE m - 1
         IN  DaysBefore(py, pm) + DaysInMonth(py, pm)

DigitChars == <<"0", "1", "2", "3", "4", "5", "6", "7", "8", "9">>

DigitChar(n) == DigitChars[n + 1]

IsDigit(c) == \E n \in 0..9 : DigitChar(n) = c

DigitValue(c) == CHOOSE n \in 0..9 : DigitChar(n) = c

\* %m and %d of strftime: two digits
TwoDigits(n) == <<DigitChar(n \div 10), DigitChar(n % 10)>>

\* %Y of strftime, for a year of four digits
FourDigits(n) ==
    <<DigitChar(n \div 1000), DigitChar((n \div 100) % 10),
      DigitChar((n \div 10) % 10), DigitChar(n % 10)>>

\* run_date.strftime("%Y-%m-%d")
DateStr(t) ==
    LET d == DateOf(t)
    IN  <<FourDigits(d[1]), TwoDigits(d[2]), TwoDigits(d[3])>>

IsNumber(text) == text # <<>> /\ \A i \in 1..Len(text) : IsDigit(text[i])

RECURSIVE NumberOf(_)
NumberOf(text) ==
    IF text = <<>> THEN 0
    ELSE NumberOf(SubSeq(text, 1, Len(text) - 1)) * 10 + DigitValue(text[Len(text)])

\* datetime.strptime(date_str, "%Y-%m-%d"): the midnight of the day, or None
\* for the ValueError.  %Y takes four digits; %m and %d take one or two.
Strptime(date_str) ==
    IF /\ IsNumber(date_str[1]) /\ Len(date_str[1]) = 4
       /\ IsNumber(date_str[2]) /\ Len(date_str[2]) \in 1..2
       /\ IsNumber(date_str[3]) /\ Len(date_str[3]) \in 1..2
    THEN LET y == NumberOf(date_str[1])
             m == NumberOf(date_str[2])
             d == NumberOf(date_str[3])
         IN  IF y >= EpochYear /\ m \in 1..12 /\ d >= 1 /\ d <= DaysInMonth(y, m)
             THEN Some(Days(DaysBefore(y, m) + d - 1))
             ELSE None
    ELSE None

\* run_date.isoformat(): the date and the time of day
Isoformat(t) == <<DateStr(t), t % TicksPerDay>>

----------------------------------------------------------------------------
(* JSON text.  A text is a sequence of tokens <<kind, key, subkey, value>>: *)
(* the opening brace of the document, a key with a scalar value, a key     *)
(* that opens a dictionary, an entry of that dictionary, the closing brace *)
(* of the document.  A number is Some(x) and null is None inside metrics.  *)

DictKeys == {"monthly_dividends", "stock_annual_dividends", "metrics"}

\* the order in which save_historical builds historical_data
KeyOrder ==
    <<"date", "portfolio_file", "total_value", "total_cost",
      "monthly_dividends", "stock_annual_dividends", "metrics">>

\* the elements of a set, one after the other
RECURSIVE SeqOf(_)
SeqOf(set) ==
    IF set = {} THEN <<>>
    ELSE LET x == CHOOSE x \in set : TRUE
         IN  <<x>> \o SeqOf(set \ {x})

\* the tokens of one key of the document
TokensOf(doc, key) ==
    IF key \notin DOMAIN doc THEN <<>>
    ELSE IF key \in DictKeys
    THEN LET subkeys == SeqOf(DOMAIN doc[key])
         IN  <<<<"dict", key, 0, 0>>>> \o
             [i \in 1..Len(subkeys) |-> <<"entry", key, subkeys[i], doc[key][subkeys[i]]>>]
    ELSE <<<<"scalar", key, 0, doc[key]>>>>

RECURSIVE TokensUpTo(_, _)
TokensUpTo(doc, n) ==
    IF n = 0 THEN <<>>
    ELSE TokensUpTo(doc, n - 1) \o TokensOf(doc, KeyOrder[n])

\* json.dump(doc, f): the text written
JsonDump(doc) ==
    <<<<"open", "", 0, 0>>>> \o TokensUpTo(doc, Len(KeyOrder)) \o <<<<"close", "", 0, 0>>>>

\* what json.load accepts: one document, every entry inside its dictionary
WellFormed(text) ==
    /\ Len(text) >= 2
    /\ text[1][1] = "open"
    /\ text[Len(text)][1] = "close"
    /\ \A i \in 2..(Len(text) - 1) :
          /\ text[i][1] \in {"scalar", "dict", "entry"}
          /\ text[i][1] = "entry" =>
                /\ text[i - 1][1] \in {"dict", "entry"}
                /\ text[i - 1][2] = text[i][2]

\* the document of a well-formed text; of a repeated key the last one counts
DocumentOf(text) ==
    LET inner == 2..(Len(text) - 1)
        Last(key) == CHOOSE i \in inner :
                        /\ text[i][1] # "entry" /\ text[i][2] = key
                        /\ \A j \in inner :
                              (text[j][1] # "entry" /\ text[j][2] = key) => j <= i
        Entries(key) == {j \in inner : j > Last(key) /\ text[j][1] = "entry"
                                       /\ text[j][2] = key}
        EntryOf(key, sub) == CHOOSE j \in Entries(key) :
                                /\ text[j][3] = sub
                                /\ \A k \in Entries(key) : text[k][3] = sub => k <= j
    IN  [key \in {text[i][2] : i \in {j \in inner : text[j][1] # "entry"}} |->
            IF text[Last(key)][1] = "scalar" THEN text[Last(key)][4]
            ELSE [sub \in {text[j][3] : j \in Entries(key)} |->
                     text[EntryOf(key, sub)][4]]]

\* json.load(f): the document, or the JSONDecodeError
JsonLoad(text) ==
    IF WellFormed(text) THEN [ok |-> TRUE, data |-> DocumentOf(text)]
    ELSE [ok |-> FALSE, data |-> <<>>]

----------------------------------------------------------------------------
(* calculator.py: calculate_all *)

\* lines 250-272: the results dictionary of the two returned tuples
CalculateAll(div_ret, show_metrics, m_ret) ==
    LET results == [monthly_dividends |-> div_ret[1],
                    dividend_details |-> div_ret[2],
                    stock_annual_dividends |-> div_ret[3]]
    IN  IF show_metrics
        THEN [metrics |-> m_ret[1], total_value |-> m_ret[2],
              total_cost |-> m_ret[3]] @@ results
        ELSE results

\* what calculate_dividends returns for one symbol with the payments fut
DividendsReturned(symbol, fut, shares) ==
    <<MonthlyAfter(<<>>, fut, shares, Len(fut)), DetailsOf(symbol, fut, shares),
      SetKey(<<>>, symbol, AnnualFromProjection(fut, shares))>>

\* what calculate_metrics returns for two positions, the second without a
\* cost basis, and for one position
TwoMetricsReturned ==
    <<SetKey(SetKey(<<>>, "AAA", MetricOf(5, 10000, Some(8000))),
             "BBB", MetricOf(10, 9900, None)),
      5 * 10000 + 10 * 9900, 5 * 8000>>

OneMetricReturned ==
    <<SetKey(<<>>, "AAA", MetricOf(10, 10000, Some(8000))), 10 * 10000, 10 * 8000>>

\* the results that are saved: with metrics, without (show_metrics=False),
\* and with metrics of one position only
ResultsSamples ==
    <<CalculateAll(DividendsReturned("AAA", <<<<Now + Days(30), 22>>,
                                              <<Now + Days(60), 22>>>>, 5),
                   TRUE, TwoMetricsReturned),
      CalculateAll(DividendsReturned("BBB", <<<<Now + Days(30), 23>>>>, 10),
                   FALSE, None),
      CalculateAll(DividendsReturned("AAA", <<<<Now + Days(30), 22>>>>, 10),
                   TRUE, OneMetricReturned)>>

----------------------------------------------------------------------------
(* core/historical_storage.py and core/historical.py: the snapshot store.  *)
(* A file projection_<date_str>.json of data/historical is addressed by    *)
(* its date_str.                                                            *)

\* results.get(key, default)
Get(d, key, default) == IF key \in DOMAIN d THEN d[key] ELSE default

SerializeMetricsKeepNone(metrics_in) == metrics_in

\* _serialize_metrics: of every symbol the fields that are not None
SerializeMetrics(metrics_in) ==
    [symbol \in DOMAIN metrics_in |->
        [k \in {k \in DOMAIN metrics_in[symbol] : metrics_in[symbol][k] # None} |->
            metrics_in[symbol][k]]]

\* lines 68-76: historical_data
HistoricalData(results, portfolio_path, run_date) ==
    [date |-> Isoformat(run_date),
     portfolio_file |-> portfolio_path,
     total_value |-> Get(results, "total_value", 0),
     total_cost |-> Get(results, "total_cost", 0),
     monthly_dividends |-> Get(results, "monthly_dividends", <<>>),
     stock_annual_dividends |-> Get(results, "stock_annual_dividends", <<>>),
     metrics |-> SerializeMetrics(Get(results, "metrics", <<>>))]

\* get_historical_filename(run_date), the date_str of the file name
GetHistoricalFilename(run_date) == DateStr(run_date)

\* check_historical_exists(run_date)
CheckHistoricalExists(store, run_date) ==
    GetHistoricalFilename(run_date) \in DOMAIN store

\* the directory made anew for the file
SaveHistoricalAlone(store, results, portfolio_path, run_date) ==
    SetKey(<<>>, GetHistoricalFilename(run_date),
           JsonDump(HistoricalData(results, portfolio_path, run_date)))

\* the file of today, whatever the run date
SaveHistoricalFixedName(store, results, portfolio_path, run_date) ==
    SetKey(store, GetHistoricalFilename(Now),
           JsonDump(HistoricalData(results, portfolio_path, run_date)))

\* open(filepath, "w"); json.dump(historical_data, f): the file afterwards
SaveHistorical(store, results, portfolio_path, run_date) ==
    SetKey(store, GetHistoricalFilename(run_date),
           JsonDump(HistoricalData(results, portfolio_path, run_date)))

\* what load_historical returns or raises
NotFound == [kind |-> "None", data |-> <<>>]
Loaded(data) == [kind |-> "data", data |-> data]
CorruptError == [kind |-> "HistoricalDataCorruptError", data |-> <<>>]

\* historical_storage.load_historical(run_date)
LoadHistorical(store, run_date) ==
    IF ~CheckHistoricalExists(store, run_date) THEN NotFound
    ELSE LET read == JsonLoad(store[GetHistoricalFilename(run_date)])
         IN  IF read.ok THEN Loaded(read.data) ELSE CorruptError

\* historical.load_historical(run_date), the one core/__init__.py exports:
\* every exception of the read is logged and None returned
CoreLoadHistorical(store, run_date) ==
    IF ~CheckHistoricalExists(store, run_date) THEN NotFound
    ELSE LET read == JsonLoad(store[GetHistoricalFilename(run_date)])
         IN  IF read.ok THEN Loaded(read.data) ELSE NotFound

\* the dates of the file names that parse, in the order of the files
ParsedDates(names) ==
    LET parsed == [i \in 1..Len(names) |-> Strptime(names[i])]
        kept == SelectSeq(parsed, LAMBDA d : d # None)
    IN  [i \in 1..Len(kept) |-> kept[i][1]]

\* sorted(dates)
Sorted(dates) ==
    LET Place(i) == Cardinality({j \in 1..Len(dates) :
                                    \/ dates[j] < dates[i]
                                    \/ dates[j] = dates[i] /\ j <= i})
    IN  [k \in 1..Len(dates) |-> dates[CHOOSE i \in 1..Len(dates) : Place(i) = k]]

\* list_historical_dates()
ListHistoricalDates(store) == Sorted(ParsedDates(SeqOf(DOMAIN store)))

\* the run dates of the calls: today at noon, a moment later, tomorrow
RunDates == {Now, Now + 1, Now + Days(1)}

PortfolioPaths == {"data/portfolio.csv"}

\* files of data/historical that no save of this run wrote: a file cut
\* short, a record without total_value, a file name that is no date, and a
\* file name whose month has one digit
CutShortFile ==
    [name |-> DateStr(Now + Days(1)), text |-> <<<<"open", "", 0, 0>>>>]

FieldMissingFile ==
    [name |-> DateStr(Now),
     text |-> JsonDump([date |-> Isoformat(Now),
                        portfolio_file |-> "data/portfolio.csv",
                        total_cost |-> 0,
                        monthly_dividends |-> <<>>,
                        stock_annual_dividends |-> <<>>,
                        metrics |-> <<>>])]

NoDateFile ==
    [name |-> <<FourDigits(2026), <<"1", "3">>, <<"0", "1">>>>,
     text |-> JsonDump(HistoricalData(ResultsSamples[1], "data/portfolio.csv", Now))]

OneDigitMonthFile ==
    [name |-> <<DateStr(Now)[1], <<DateStr(Now)[2][2]>>, DateStr(Now)[3]>>,
     text |-> JsonDump(HistoricalData(ResultsSamples[1], "data/portfolio.csv", Now))]

OtherFiles == <<CutShortFile, FieldMissingFile, NoDateFile, OneDigitMonthFile>>

\* the directory with the chosen ones of OtherFiles in it
StoreWith(chosen) ==
    [name \in {OtherFiles[i].name : i \in chosen} |->
        OtherFiles[CHOOSE i \in chosen : OtherFiles[i].name = name].text]

InitStore ==
    /\ now = Now
    /\ dividends = None
    /\ months_ahead = 0
    /\ pc = "store"
    /\ InitLocals
    /\ InitNoCalc
    /\ InitMetrics
    /\ \E chosen \in SUBSET (1..Len(OtherFiles)) : files = StoreWith(chosen)
    /\ saved = <<>>
    /\ last_op = None
    /\ InitBeside

\* a call save_historical(results, portfolio_path, run_date)
Save ==
    /\ pc = "store"
    /\ \E i \in 1..Len(ResultsSamples), path \in PortfolioPaths, run_date \in RunDates :
          /\ files' = SaveHistorical(files, ResultsSamples[i], path, run_date)
          /\ saved' = SetKey(saved, GetHistoricalFilename(run_date),
                             [results |-> ResultsSamples[i], run_date |-> run_date,
                              portfolio_path |-> path])
          /\ last_op' = Some([name |-> "save_historical", run_date |-> run_date,
                              out |-> GetHistoricalFilename(run_date)])
    /\ UNCHANGED engineVars
    /\ UNCHANGED besideVars

\* a call historical_storage.load_historical(run_date)
Load ==
    /\ pc = "store"
    /\ \E run_date \in RunDates :
          last_op' = Some([name |-> "load_historical", run_date |-> run_date,
                           out |-> LoadHistorical(files, run_date)])
    /\ UNCHANGED <<files, saved>>
    /\ UNCHANGED engineVars
    /\ UNCHANGED besideVars

\* a call historical.load_historical(run_date), as exported by core
CoreLoad ==
    /\ pc = "store"
    /\ \E run_date \in RunDates :
          last_op' = Some([name |-> "core.load_historical", run_date |-> run_date,
                           out |-> CoreLoadHistorical(files, run_date)])
    /\ UNCHANGED <<files, saved>>
    /\ UNCHANGED engineVars
    /\ UNCHANGED besideVars

\* a call check_historical_exists(run_date)
Exists ==
    /\ pc = "store"
    /\ \E run_date \in RunDates :
          last_op' = Some([name |-> "check_historical_exists", run_date |-> run_date,
                           out |-> CheckHistoricalExists(files, run_date)])
    /\ UNCHANGED <<files, saved>>
    /\ UNCHANGED engineVars
    /\ UNCHANGED besideVars

\* a call list_historical_dates()
List ==
    /\ pc = "store"
    /\ last_op' = Some([name |-> "list_historical_dates", run_date |-> 0,
                        out |-> ListHistoricalDates(files)])
    /\ UNCHANGED <<files, saved>>
    /\ UNCHANGED engineVars
    /\ UNCHANGED besideVars

NextStore == Save \/ Load \/ CoreLoad \/ Exists \/ List

SpecStore == InitStore /\ [][NextStore]_vars

----------------------------------------------------------------------------
(* the snapshot store: round trip *)

\* the last call was this function
LastCall(name) == last_op # None /\ last_op[1].name = name

\* the last call was a load of a day that a save of this run wrote
LoadedSavedDay ==
    /\ LastCall("load_historical")
    /\ GetHistoricalFilename(last_op[1].run_date) \in DOMAIN saved

\* what was saved for the day of the last call
SavedForLast == saved[GetHistoricalFilename(last_op[1].run_date)]

PlainFields ==
    {"total_value", "total_cost", "monthly_dividends", "stock_annual_dividends"}

OptionalMetricFields == {"current_price", "cost_basis", "gain_loss", "gain_loss_pct"}

\* C12: a load of a day on which X was saved returns a record whose
\* total_value, total_cost, monthly_dividends and stock_annual_dividends are
\* those populated in X, whose metrics have X's symbols and X's values, and
\* in which an optional metric field is present exactly when it is not None
\* in X, and never holds null
C12_RoundTrip ==
    LoadedSavedDay =>
        LET X == SavedForLast.results
            out == last_op[1].out
        IN  /\ out.kind = "data"
            /\ \A k \in PlainFields \cap DOMAIN X :
                  k \in DOMAIN out.data /\ out.data[k] = X[k]
            /\ "metrics" \in DOMAIN X =>
                  /\ "metrics" \in DOMAIN out.data
                  /\ DOMAIN out.data["metrics"] = DOMAIN X["metrics"]
                  /\ \A sym \in DOMAIN X["metrics"] :
                        LET m == X["metrics"][sym]
                            got == out.data["metrics"][sym]
                        IN  /\ \A k \in DOMAIN m :
                                  m[k] # None => (k \in DOMAIN got /\ got[k] = m[k])
                            /\ \A k \in OptionalMetricFields :
                                  k \in DOMAIN got <=> (k \in DOMAIN m /\ m[k] # None)
                            /\ \A k \in DOMAIN got : got[k] # None

\* X with a position without cost basis was saved at noon and loaded with a
\* later time of the same day
C12_LoadedLaterSameDay ==
    /\ LoadedSavedDay
    /\ last_op[1].run_date # SavedForLast.run_date
    /\ last_op[1].out.kind = "data"
    /\ "metrics" \in DOMAIN SavedForLast.results
    /\ \E sym \in DOMAIN SavedForLast.results["metrics"] :
          SavedForLast.results["metrics"][sym]["cost_basis"] = None

\* C13: a load of a day on which X was saved returns a record without
\* total_value, total_cost or metrics when X has none
C13_AbsentStaysAbsent ==
    LoadedSavedDay =>
        /\ last_op[1].out.kind = "data"
        /\ \A k \in {"total_value", "total_cost", "metrics"} :
              k \notin DOMAIN SavedForLast.results => k \notin DOMAIN last_op[1].out.data

----------------------------------------------------------------------------
(* the snapshot store: saving again *)

\* how often a day is in a list of dates
CountOf(dates, day) == Cardinality({i \in 1..Len(dates) : dates[i] = day})

\* the midnight of the day of a datetime
MidnightOf(t) == Days(t \div TicksPerDay)

C14_SaveOverwritesOwnFiles ==
    [][(/\ last_op' # last_op
        /\ last_op'[1].name = "save_historical"
        /\ last_op'[1].out \in DOMAIN saved
        /\ OneDigitMonthFile.name \notin DOMAIN files) =>
           LET name == last_op'[1].out
               new == saved'[name]
               record == HistoricalData(new.results, new.portfolio_path, new.run_date)
           IN  /\ files'[name] = JsonDump(record)
               /\ LoadHistorical(files', new.run_date) = Loaded(record)
               /\ Len(ListHistoricalDates(files')) = Len(ListHistoricalDates(files))
               /\ CountOf(ListHistoricalDates(files'), MidnightOf(new.run_date)) = 1
               /\ new = saved[name] => files' = files]_vars

----------------------------------------------------------------------------
(* the snapshot store: loading what is not there, or not readable *)

\* the keys of types.HistoricalData
RequiredFields ==
    {"date", "portfolio_file", "total_value", "total_cost", "monthly_dividends",
     "stock_annual_dividends", "metrics"}

\* the text is malformed JSON, or a record without a required field
Unreadable(text) ==
    IF WellFormed(text) THEN ~(RequiredFields \subseteq DOMAIN DocumentOf(text))
    ELSE TRUE

\* C15: either load_historical returns None exactly when the day has no
\* file, and raises HistoricalDataCorruptError when the file of the day is
\* malformed or lacks a required field
C15_NotFoundNeverCorrupt ==
    (LastCall("load_historical") \/ LastCall("core.load_historical")) =>
        LET name == GetHistoricalFilename(last_op[1].run_date)
            out == last_op[1].out
        IN  /\ out.kind = "None" <=> name \notin DOMAIN files
            /\ (name \in DOMAIN files /\ Unreadable(files[name])) =>
                  out.kind = "HistoricalDataCorruptError"

\* C15 for historical_storage.load_historical and malformed JSON alone
C15_StorageMalformedRaises ==
    LastCall("load_historical") =>
        LET name == GetHistoricalFilename(last_op[1].run_date)
            out == last_op[1].out
        IN  /\ out.kind = "None" <=> name \notin DOMAIN files
            /\ (name \in DOMAIN files /\ ~WellFormed(files[name])) =>
                  out.kind = "HistoricalDataCorruptError"

----------------------------------------------------------------------------
(* the snapshot store: a day that is present stays present *)

\* C16: no step removes a file, and after every step every day written by a
\* completed save exists and is in the list of dates
C16_PresentStaysPresent ==
    [][/\ DOMAIN files \subseteq DOMAIN files'
       /\ \A name \in DOMAIN saved' :
             /\ CheckHistoricalExists(files', saved'[name].run_date)
             /\ CountOf(ListHistoricalDates(files'),
                        MidnightOf(saved'[name].run_date)) >= 1]_vars

\* two days were saved, one of them twice, and the last call finds a day
C16_SavedDayFound ==
    /\ LastCall("check_historical_exists")
    /\ last_op[1].out = TRUE
    /\ Cardinality(DOMAIN saved) = 2
    /\ GetHistoricalFilename(last_op[1].run_date) \in DOMAIN saved
    /\ saved[GetHistoricalFilename(last_op[1].run_date)].run_date = Now + 1

----------------------------------------------------------------------------
(* the snapshot store: the list of dates *)

\* C17: list_historical_dates returns, ascending and each once, exactly the
\* days of the files whose name is a date, and every returned day exists
C17_ListIsTheDaysOnce ==
    LastCall("list_historical_dates") =>
        LET out == last_op[1].out
        IN  /\ \A i, j \in 1..Len(out) : i < j => out[i] < out[j]
            /\ {out[i] : i \in 1..Len(out)} =
                  {Strptime(name)[1] : name \in {n \in DOMAIN files : Strptime(n) # None}}
            /\ \A i \in 1..Len(out) : CheckHistoricalExists(files, out[i])

\* C17 in a directory whose file names are the ones save_historical gives
C17_ListOfOwnFiles ==
    (LastCall("list_historical_dates") /\ OneDigitMonthFile.name \notin DOMAIN files) =>
        LET out == last_op[1].out
        IN  /\ \A i, j \in 1..Len(out) : i < j => out[i] < out[j]
            /\ {out[i] : i \in 1..Len(out)} =
                  {Strptime(name)[1] : name \in {n \in DOMAIN files : Strptime(n) # None}}
            /\ \A i \in 1..Len(out) : CheckHistoricalExists(files, out[i])

----------------------------------------------------------------------------
(* save_historical in two processes at once, for the same day.  A process  *)
(* opens the file for writing, which empties it, and then writes its text  *)
(* at its own file offset, one buffer at a time; nothing is locked.        *)

Procs == {1, 2}

\* the tokens one write of the buffered file carries
BufferTokens == 8

Max(a, b) == IF a >= b THEN a ELSE b

\* the bytes of a hole left by a write past the end of the file
Hole == <<"hole", "", 0, 0>>

\* the file after write(chunk) at offset off
WriteAt(old, off, chunk) ==
    [i \in 1..Max(Len(old), off + Len(chunk)) |->
        IF i > off /\ i <= off + Len(chunk) THEN chunk[i - off]
        ELSE IF i <= Len(old) THEN old[i]
        ELSE Hole]

\* the day both processes save, and the run date of each
RaceFile == GetHistoricalFilename(Now)
RaceDate(p) == IF p = 1 THEN Now ELSE Now + 1

InitRace ==
    /\ now = Now
    /\ dividends = None
    /\ months_ahead = 0
    /\ pc = "race"
    /\ InitLocals
    /\ InitNoCalc
    /\ InitMetrics
    /\ files = <<>>
    /\ saved = <<>>
    /\ last_op = None
    /\ writers = [p \in Procs |-> [pc |-> "start", text |-> <<>>, off |-> 0]]
    /\ finished = <<>>
    /\ InitNoTrend
    /\ InitNoCalls

\* lines 58-78 in process p: historical_data is built and open(filepath, "w")
\* empties the file
RaceOpen ==
    /\ pc = "race"
    /\ \E p \in Procs, i \in 1..Len(ResultsSamples), path \in PortfolioPaths :
          /\ writers[p].pc = "start"
          /\ files' = SetKey(files, RaceFile, <<>>)
          /\ writers' = [writers EXCEPT ![p] =
                [pc |-> "open",
                 text |-> JsonDump(HistoricalData(ResultsSamples[i], path, RaceDate(p))),
                 off |-> 0]]
    /\ UNCHANGED <<saved, last_op, finished>>
    /\ UNCHANGED engineVars
    /\ UNCHANGED trendVars
    /\ UNCHANGED callVars

\* lines 78-79 in process p: the next buffer of json.dump is written; with
\* the last one the file is closed
RaceWrite ==
    /\ pc = "race"
    /\ \E p \in Procs :
          /\ writers[p].pc = "open"
          /\ LET w == writers[p]
                 upto == IF w.off + BufferTokens >= Len(w.text) THEN Len(w.text)
                         ELSE w.off + BufferTokens
             IN  /\ files' = SetKey(files, RaceFile,
                                    WriteAt(files[RaceFile], w.off,
                                            SubSeq(w.text, w.off + 1, upto)))
                 /\ writers' = [writers EXCEPT ![p] =
                       [pc |-> IF upto = Len(w.text) THEN "closed" ELSE "open",
                        text |-> w.text, off |-> upto]]
                 /\ finished' = IF upto = Len(w.text) THEN Append(finished, p)
                                ELSE finished
    /\ UNCHANGED <<saved, last_op>>
    /\ UNCHANGED engineVars
    /\ UNCHANGED trendVars
    /\ UNCHANGED callVars

NextRace == RaceOpen \/ RaceWrite

SpecRace == InitRace /\ [][NextRace]_vars

\* C18: once both processes have closed the file, it holds exactly the text
\* of the process that closed it last
C18_LastWriterWins ==
    Len(finished) = 2 => files[RaceFile] = writers[finished[2]].text

\* once both processes have closed the file, json.load reads it
C18_FileReadable ==
    Len(finished) = 2 => WellFormed(files[RaceFile])

----------------------------------------------------------------------------
(* ui/historical_display.py: display_historical_trend, _render_trend_table *)
(* and _format_change; ui/dashboard.py: _display_historical_trend is the   *)
(* same loop over the snapshots that load.                                 *)

MaxSeries == 3

\* total values of a snapshot, in cents: 1000.00, 1100.00, nothing, and a
\* portfolio of short positions
TrendValues == {100000, 110000, 0, 0 - 100000}

TrendAnnuals ==
    {<<>>, SetKey(<<>>, "AAA", 2000), SetKey(SetKey(<<>>, "AAA", 2100), "BBB", 990)}

\* what load_historical gives for a date of the list: a snapshot, or None
LoadedSnapshots ==
    {None} \cup
    {Some([total_value |-> v, stock_annual_dividends |-> a]) :
        v \in TrendValues, a \in TrendAnnuals}

DEFAULT_TREND_DAYS == 90

\* the look-back of a call: one day, or the default
TrendDays == {1, DEFAULT_TREND_DAYS}

\* lines 118-131: the listed dates since the cutoff that load, each with its
\* snapshot; loads[i] is what load_historical gives for the i-th listed date
RECURSIVE KeepLoaded(_, _, _)
KeepLoaded(loads, n, cutoff) ==
    IF n = 0 THEN <<>>
    ELSE IF Midnight(Len(loads) - n) < cutoff \/ loads[n] = None
         THEN KeepLoaded(loads, n - 1, cutoff)
         ELSE Append(KeepLoaded(loads, n - 1, cutoff),
                     <<Midnight(Len(loads) - n), loads[n][1]>>)

NextPrevKeepFirst(value, prev) == IF prev = None THEN Some(value) ELSE prev

\* line 171: prev_value = value
NextPrev(value, prev) == Some(value)

\* _format_change: no change for the first row, else the change and its
\* percentage
FormatChange(value, prev) ==
    IF prev = None THEN None
    ELSE LET change == value - prev[1]
         IN  Some([change |-> change,
                   change_pct |-> IF prev[1] > 0 THEN PercentOf(change, prev[1])
                                  ELSE 0])

InitTrend ==
    /\ now = Now
    /\ dividends = None
    /\ months_ahead = 0
    /\ pc = "trend_start"
    /\ InitLocals
    /\ InitNoCalc
    /\ InitMetrics
    /\ InitNoStore
    /\ InitBeside

\* display_historical_trend, lines 112-137: the snapshots are loaded
CallTrend ==
    /\ pc = "trend_start"
    /\ \E n \in 0..MaxSeries, days \in TrendDays :
          \E loads \in [1..n -> LoadedSnapshots] :
             LET kept == KeepLoaded(loads, n, now - Days(days))
             IN  /\ historical_data' = kept
                 /\ pc' = IF kept = <<>> THEN "trend_done" ELSE "render"
    /\ row' = 1
    /\ prev_value' = None
    /\ table' = <<>>
    /\ summary' = None
    /\ UNCHANGED <<now, dividends, months_ahead, result>>
    /\ UNCHANGED projVars
    /\ UNCHANGED calcVars
    /\ UNCHANGED metricVars
    /\ UNCHANGED storeVars
    /\ UNCHANGED raceVars
    /\ UNCHANGED callVars

\* _render_trend_table, lines 156-171: one row
RenderRow ==
    /\ pc = "render"
    /\ row <= Len(historical_data)
    /\ LET data == historical_data[row][2]
           value == data.total_value
           annual_div == SumValues(data.stock_annual_dividends,
                                   DOMAIN data.stock_annual_dividends)
       IN  /\ table' = Append(table,
                  [date |-> DateStr(historical_data[row][1]),
                   value |-> value,
                   annual_div |-> annual_div,
                   yield_pct |-> IF value > 0 THEN PercentOf(annual_div, value) ELSE 0,
                   change |-> FormatChange(value, prev_value)])
           /\ prev_value' = NextPrev(value, prev_value)
    /\ row' = row + 1
    /\ UNCHANGED <<historical_data, summary>>
    /\ UNCHANGED engineVars
    /\ UNCHANGED storeVars
    /\ UNCHANGED raceVars
    /\ UNCHANGED callVars

\* line 173: the table is printed
RenderDone ==
    /\ pc = "render"
    /\ row > Len(historical_data)
    /\ pc' = "summary"
    /\ UNCHANGED trendVars
    /\ UNCHANGED <<now, dividends, months_ahead, result>>
    /\ UNCHANGED projVars
    /\ UNCHANGED calcVars
    /\ UNCHANGED metricVars
    /\ UNCHANGED storeVars
    /\ UNCHANGED raceVars
    /\ UNCHANGED callVars

PeriodSummaryAdjacent(hd) ==
    IF Len(hd) < 2 THEN None
    ELSE LET first_data == hd[Len(hd) - 1][2]
             last_data == hd[Len(hd)][2]
             first_value == first_data.total_value
             last_value == last_data.total_value
             first_annual_div == SumValues(first_data.stock_annual_dividends,
                                           DOMAIN first_data.stock_annual_dividends)
             last_annual_div == SumValues(last_data.stock_annual_dividends,
                                          DOMAIN last_data.stock_annual_dividends)
             value_change == last_value - first_value
             div_change == last_annual_div - first_annual_div
         IN  Some([first_date |-> DateStr(hd[Len(hd) - 1][1]),
                   last_date |-> DateStr(hd[Len(hd)][1]),
                   data_points |-> Len(hd),
                   value_change |-> value_change,
                   value_change_pct |-> IF first_value > 0
                                        THEN PercentOf(value_change, first_value)
                                        ELSE 0,
                   div_change |-> div_change,
                   div_change_pct |-> IF first_annual_div > 0
                                      THEN PercentOf(div_change, first_annual_div)
                                      ELSE 0])

\* _render_period_summary: nothing for fewer than two snapshots, else the
\* last snapshot against the first
PeriodSummary(hd) ==
    IF Len(hd) < 2 THEN None
    ELSE LET first_data == hd[1][2]
             last_data == hd[Len(hd)][2]
             first_value == first_data.total_value
             last_value == last_data.total_value
             first_annual_div == SumValues(first_data.stock_annual_dividends,
                                           DOMAIN first_data.stock_annual_dividends)
             last_annual_div == SumValues(last_data.stock_annual_dividends,
                                          DOMAIN last_data.stock_annual_dividends)
             value_change == last_value - first_value
             div_change == last_annual_div - first_annual_div
         IN  Some([first_date |-> DateStr(hd[1][1]),
                   last_date |-> DateStr(hd[Len(hd)][1]),
                   data_points |-> Len(hd),
                   value_change |-> value_change,
                   value_change_pct |-> IF first_value > 0
                                        THEN PercentOf(value_change, first_value)
                                        ELSE 0,
                   div_change |-> div_change,
                   div_change_pct |-> IF first_annual_div > 0
                                      THEN PercentOf(div_change, first_annual_div)
                                      ELSE 0])

\* display_historical_trend, line 138: the period summary
RenderPeriodSummary ==
    /\ pc = "summary"
    /\ summary' = PeriodSummary(historical_data)
    /\ pc' = "trend_done"
    /\ UNCHANGED <<historical_data, row, prev_value, table>>
    /\ UNCHANGED <<now, dividends, months_ahead, result>>
    /\ UNCHANGED projVars
    /\ UNCHANGED calcVars
    /\ UNCHANGED metricVars
    /\ UNCHANGED storeVars
    /\ UNCHANGED raceVars
    /\ UNCHANGED callVars

NextTrend == CallTrend \/ RenderRow \/ RenderDone \/ RenderPeriodSummary

SpecTrend == InitTrend /\ [][NextTrend]_vars

----------------------------------------------------------------------------
(* The trend table                                                         *)

\* the snapshot a row of the table was made from
SnapshotOfRow(i) == historical_data[i][2]

AnnualDividendsOfRow(i) ==
    SumValues(SnapshotOfRow(i).stock_annual_dividends,
              DOMAIN SnapshotOfRow(i).stock_annual_dividends)

Chronological ==
    \A i \in 1..(Len(historical_data) - 1) :
        historical_data[i][1] < historical_data[i + 1][1]

\* C19 as stated: the first row of the trend has no change; every later row
\* shows change = value - prev_value and change_pct = change / prev_value * 100
\* against the row just before it, and change_pct is 0 when prev_value is 0.
C19_PairwiseChangeZeroOnly ==
    \A i \in 1..Len(table) :
        IF i = 1 THEN table[i].change = None
        ELSE LET prev == SnapshotOfRow(i - 1).total_value
                 change == SnapshotOfRow(i).total_value - prev
             IN  table[i].change =
                     Some([change |-> change,
                           change_pct |-> IF prev = 0 THEN 0
                                          ELSE PercentOf(change, prev)])

\* C19, amended: the first row of the trend has no change; every later row
\* shows change = value - prev_value against the row just before it, and
\* change_pct = change / prev_value * 100 when prev_value is positive, 0 when
\* prev_value is zero or negative.
C19_PairwiseChange ==
    /\ Chronological
    /\ \A i \in 1..Len(table) :
          IF i = 1 THEN table[i].change = None
          ELSE LET prev == SnapshotOfRow(i - 1).total_value
                   change == SnapshotOfRow(i).total_value - prev
               IN  table[i].change =
                       Some([change |-> change,
                             change_pct |-> IF prev <= 0 THEN 0
                                            ELSE PercentOf(change, prev)])

\* a trend of three rows with the values 0, 1000.00 and 1100.00: the second
\* row shows +1000.00 and 0%, the third +100.00 and +10.00%
C19_ThousandToElevenHundred ==
    /\ pc = "trend_done"
    /\ Len(table) = 3
    /\ table[1].value = 0
    /\ table[1].change = None
    /\ table[2].value = 100000
    /\ table[2].change = Some([change |-> 100000, change_pct |-> 0])
    /\ table[3].value = 110000
    /\ table[3].change = Some([change |-> 10000, change_pct |-> 10 * RateScale])

\* C20: every row of the trend after the first carries dividend_change and
\* dividend_change_pct, the change of the sum of stock_annual_dividends
\* against the row just before it.
C20_DividendChangePerRow ==
    \A i \in 2..Len(table) :
        LET prev == AnnualDividendsOfRow(i - 1)
            change == AnnualDividendsOfRow(i) - prev
        IN  /\ "dividend_change" \in DOMAIN table[i]
            /\ "dividend_change_pct" \in DOMAIN table[i]
            /\ table[i].dividend_change = change
            /\ table[i].dividend_change_pct =
                   IF prev = 0 THEN 0 ELSE PercentOf(change, prev)

\* C21: the period summary is printed exactly when at least two snapshots
\* were loaded; it compares the last snapshot of the window with the first
\* (value change and dividend change are last minus first, a percentage is
\* change / first * 100 for a positive first value and 0 for a first value of
\* 0); for fewer than two snapshots no row shows a change and there is no
\* summary.
C21_PeriodSummaryFirstToLast ==
    pc = "trend_done" =>
        LET n == Len(historical_data)
        IN  /\ (summary # None) <=> (n >= 2)
            /\ n < 2 => \A i \in 1..Len(table) : table[i].change = None
            /\ n >= 2 =>
                  LET first_value == SnapshotOfRow(1).total_value
                      first_div == AnnualDividendsOfRow(1)
                      s == summary[1]
                  IN  /\ s.value_change = SnapshotOfRow(n).total_value - first_value
                      /\ s.div_change = AnnualDividendsOfRow(n) - first_div
                      /\ first_value = 0 => s.value_change_pct = 0
                      /\ first_value > 0 =>
                            s.value_change_pct = PercentOf(s.value_change, first_value)
                      /\ first_div = 0 => s.div_change_pct = 0
                      /\ first_div > 0 =>
                            s.div_change_pct = PercentOf(s.div_change, first_div)
                      /\ s.first_date = table[1].date
                      /\ s.last_date = table[n].date

\* three snapshots with the values 1000.00, 0 and 1100.00 and the annual
\* dividends 20.00, 0 and 30.90: the summary shows +100.00 (+10.00%) and
\* +10.90 (+54.50%)
C21_SummaryOfThree ==
    /\ pc = "trend_done"
    /\ Len(historical_data) = 3
    /\ SnapshotOfRow(1).total_value = 100000
    /\ SnapshotOfRow(2).total_value = 0
    /\ AnnualDividendsOfRow(2) = 0
    /\ summary # None
    /\ summary[1].value_change = 10000
    /\ summary[1].value_change_pct = 10 * RateScale
    /\ summary[1].div_change = 1090
    /\ summary[1].div_change_pct = 5450

\* a summary whose first snapshot has the value 0 and no dividends
C21_SummaryFromZero ==
    /\ pc = "trend_done"
    /\ summary # None
    /\ SnapshotOfRow(1).total_value = 0
    /\ AnnualDividendsOfRow(1) = 0
    /\ summary[1].value_change > 0
    /\ summary[1].div_change > 0

----------------------------------------------------------------------------
(* One position with a quarterly history, projected a year ahead *)

\* 8 payments of 0.24 a share, 91 days apart, the last one at `last`
QuarterlyHistory(last) == [i \in 1..8 |-> <<last - Days(91 * (8 - i)), 24>>]

\* the last payment is 0 to 90 days before now, at noon or at midnight
QuarterlyAnswers ==
    {ProviderData(QuarterlyHistory(Now - k * HalfDay)) : k \in 0..(2 * 90)}

QuarterlyPortfolio == <<<<"AAPL", [shares |-> Some(50), cost_basis |-> None]>>>>

InitQuarterly ==
    /\ now = Now
    /\ dividends = None
    /\ months_ahead = 0
    /\ pc = "quarterly_start"
    /\ InitLocals
    /\ InitNoCalc
    /\ InitLater

\* calculate_dividends({AAPL: 50 shares}, months_ahead=12); lines 113-115
CallQuarterly ==
    /\ pc = "quarterly_start"
    /\ portfolio' = QuarterlyPortfolio
    /\ months_ahead' = 12
    /\ monthly_totals' = <<>>
    /\ dividend_details' = <<>>
    /\ stock_annual_dividends' = <<>>
    /\ fetched' = <<>>
    /\ events' = <<>>
    /\ idx' = 1
    /\ pc' = "for"
    /\ UNCHANGED <<now, dividends, result, ret>>
    /\ UNCHANGED projVars
    /\ UNCHANGED laterVars

ForQuarterlyHistory == ForHistoryOf(QuarterlyAnswers)

NextQuarterly ==
    \/ CallQuarterly
    \/ ForQuarterlyHistory
    \/ EstimateEntry
    \/ LoopTest
    \/ LoopBody
    \/ LoopExit
    \/ Aggregate
    \/ ForDone

SpecQuarterly == InitQuarterly /\ [][NextQuarterly]_vars

\* the age of the last payment of the history the provider gave
LastPaymentAgo ==
    LET d == fetched["AAPL"].dividends[1]
    IN  now - d[Len(d)][1]

QuarterlyOutcome ==
    /\ (pc = "returned" =>
           /\ result[2] = "quarterly"
           /\ Len(result[1]) = 4)
    /\ (pc = "done" =>
           /\ Len(ret[2]) = 4
           /\ \A i \in 1..4 : ret[2][i].total = 1200
           /\ Cardinality(DOMAIN ret[1]) = 4
           /\ SumValues(ret[1], DOMAIN ret[1]) = 4800
           /\ ret[3] = SetKey(<<>>, "AAPL", 4800))

\* C22: for {AAPL: 50 shares}, 8 payments of 0.24 spaced 91 days with the
\* last one 0 to 90 days before now, and months_ahead = 12, the frequency is
\* quarterly, 4 payments of 12.00 are projected, they fall into 4 distinct
\* months and the monthly totals sum to 48.00.
C22_QuarterlyYear == QuarterlyOutcome

\* the same, for a last payment at least 4 days before now
C22_QuarterlyYearFromFourDays ==
    (pc \in {"returned", "done"} /\ LastPaymentAgo >= Days(4)) => QuarterlyOutcome

\* a last payment less than 4 days old: 3 payments, 36.00
C22_ThreePayments ==
    (pc = "done" /\ LastPaymentAgo < Days(4)) =>
        /\ Len(ret[2]) = 3
        /\ SumValues(ret[1], DOMAIN ret[1]) = 3600

----------------------------------------------------------------------------
(* The order of the callbacks and fetches of calculate_dividends *)

InCalculate == pc \in {"for", "estimate", "loop", "body", "returned", "done"}

PositionOf(symbol) == CHOOSE k \in 1..Len(portfolio) : portfolio[k][1] = symbol

\* the places of the events of one kind for a symbol
EventsAt(kind, symbol) ==
    {i \in 1..Len(events) : events[i] = Event(kind, symbol)}

EventsFor(symbol) == {i \in 1..Len(events) : events[i].symbol = symbol}

\* the loop has entered the iteration of the k-th position
Entered(k) == k < idx \/ (k = idx /\ pc \in {"estimate", "loop", "body", "returned"})

FetchKinds == {"get_dividend_data", "get_yield_rate", "get_current_price"}

\* C23: the symbols are processed one at a time in the order of the
\* portfolio: for a symbol with shares, on_symbol_start is called once and
\* before every fetch for the symbol, on_symbol_data at most once, after the
\* fetch and the projection and only for a symbol with a history, and every
\* call for a symbol comes before the on_symbol_start of the next; a symbol
\* without shares has no callback and no fetch.
C23_OneSymbolAtATime ==
    InCalculate =>
        /\ \A i, j \in 1..Len(events) :
              i < j => PositionOf(events[i].symbol) <= PositionOf(events[j].symbol)
        /\ \A k \in 1..Len(portfolio) :
              LET symbol == portfolio[k][1]
                  starts == EventsAt("on_symbol_start", symbol)
                  datas == EventsAt("on_symbol_data", symbol)
                  fetches == UNION {EventsAt(kind, symbol) : kind \in FetchKinds}
                  estimates == EventsAt("estimate_future_dividends", symbol)
              IN  IF portfolio[k][2].shares = None \/ ~Entered(k)
                  THEN EventsFor(symbol) = {}
                  ELSE /\ Cardinality(starts) = 1
                       /\ \A i \in EventsFor(symbol) \ starts : \A st \in starts : st < i
                       /\ Cardinality(EventsAt("get_dividend_data", symbol)) = 1
                       /\ Cardinality(datas) <= 1
                       /\ \A d \in datas :
                             /\ symbol \in WithHistory
                             /\ estimates # {}
                             /\ \A i \in fetches \cup estimates : i < d
                       /\ (k < idx /\ symbol \in WithHistory) => datas # {}

\* a run over two positions with shares, the first with a history and the
\* second without, priced for the yield-rate fallback
C23_HistoryThenFallback ==
    /\ pc = "done"
    /\ Len(portfolio) = 2
    /\ events = <<Event("on_symbol_start", portfolio[1][1]),
                  Event("get_dividend_data", portfolio[1][1]),
                  Event("estimate_future_dividends", portfolio[1][1]),
                  Event("on_symbol_data", portfolio[1][1]),
                  Event("on_symbol_start", portfolio[2][1]),
                  Event("get_dividend_data", portfolio[2][1]),
                  Event("get_yield_rate", portfolio[2][1]),
                  Event("get_current_price", portfolio[2][1])>>

\* a run that skips a first position without shares
C23_SkippedThenHistory ==
    /\ pc = "done"
    /\ Len(portfolio) = 2
    /\ portfolio[1][2].shares = None
    /\ Len(events) = 4
    /\ events[4] = Event("on_symbol_data", portfolio[2][1])

----------------------------------------------------------------------------
(* calculator.py as functions of the arguments and of the provider's       *)
(* answers, for calls that are compared with each other                    *)

\* lines 80-83: the while loop from next_date = nd on
RECURSIVE ProjectFrom(_, _, _, _, _, _)
ProjectFrom(nd, avg, amount, cur, pend, fut) ==
    IF LoopCond(nd, pend, fut)
    THEN ProjectFrom(nd + avg, avg, amount, cur, pend,
                     IF Retain(nd, cur) THEN Append(fut, <<nd, amount>>) ELSE fut)
    ELSE fut

\* the payments returned latest first
EstimateFutureDividendsLatestFirst(d, clock, months) ==
    IF TooShort(d) \/ Intervals(SortByDate(d[1])) = <<>>
    THEN UnknownResult
    ELSE LET dl == SortByDate(d[1])
             avg == AvgInterval(Intervals(dl))
             fut == ProjectFrom(dl[Len(dl)][1] + avg, avg, dl[Len(dl)][2], clock,
                                clock + Days(30 * months), <<>>)
         IN  <<[i \in 1..Len(fut) |-> fut[Len(fut) - i + 1]],
               DetectFrequency(avg), avg>>

\* estimate_future_dividends(d, months) called at the time `clock`
EstimateFutureDividends(d, clock, months) ==
    IF TooShort(d) \/ Intervals(SortByDate(d[1])) = <<>>
    THEN UnknownResult
    ELSE LET dl == SortByDate(d[1])
             avg == AvgInterval(Intervals(dl))
         IN  <<ProjectFrom(dl[Len(dl)][1] + avg, avg, dl[Len(dl)][2], clock,
                           clock + Days(30 * months), <<>>),
               DetectFrequency(avg), avg>>

\* the function gives what the steps of estimate_future_dividends return
EstimateAsFunction ==
    pc = "returned" => result = EstimateFutureDividends(dividends, now, months_ahead)

\* calculate_dividends, lines 113-115
NoDividendsYet ==
    [monthly_totals |-> <<>>, dividend_details |-> <<>>,
     stock_annual_dividends |-> <<>>]

\* calculate_dividends, lines 117-164, over the first n items of the portfolio;
\* mk[symbol] holds what the provider answers for the symbol
RECURSIVE DividendsAfter(_, _, _, _, _)
DividendsAfter(items, n, months, mk, clock) ==
    IF n = 0 THEN NoDividendsYet
    ELSE LET before == DividendsAfter(items, n - 1, months, mk, clock)
             symbol == items[n][1]
             shares == items[n][2].shares
             d == GetDividendData(mk[symbol].dividends, clock)
             yield_rate == GetYieldRate(mk[symbol].yield)
             price == GetCurrentPrice(mk[symbol].price)
             fut == EstimateFutureDividends(d, clock, months)[1]
         IN  IF shares = None THEN before
             ELSE IF NoHistory(d)
             THEN IF Truthy(yield_rate) /\ Truthy(price)
                  THEN [before EXCEPT !.stock_annual_dividends =
                           SetKey(@, symbol,
                                  AnnualFromYield(price[1], yield_rate[1], shares[1]))]
                  ELSE before
             ELSE [monthly_totals |->
                       MonthlyAfter(before.monthly_totals, fut, shares[1], Len(fut)),
                   dividend_details |->
                       before.dividend_details \o DetailsOf(symbol, fut, shares[1]),
                   stock_annual_dividends |->
                       SetKey(before.stock_annual_dividends, symbol,
                              AnnualFromProjection(fut, shares[1]))]

CalculateDividends(items, months, mk, clock) ==
    DividendsAfter(items, Len(items), months, mk, clock)

TotalAfterOverwrite(total, amount) == amount

\* total_value += current_value; total_cost += cost_basis
TotalAfter(total, amount) == total + amount

\* calculate_metrics, lines 183-221, over the first n items of the portfolio
RECURSIVE MetricsAfter(_, _, _)
MetricsAfter(items, n, mk) ==
    IF n = 0 THEN [metrics |-> <<>>, total_value |-> 0, total_cost |-> 0]
    ELSE LET before == MetricsAfter(items, n - 1, mk)
             symbol == items[n][1]
             shares == items[n][2].shares
             cost_basis_per_share == items[n][2].cost_basis
             current_price == GetCurrentPrice(mk[symbol].price)
         IN  IF shares = None THEN before
             ELSE IF ~Truthy(current_price) THEN before
             ELSE [metrics |->
                       SetKey(before.metrics, symbol,
                              MetricOf(shares[1], current_price[1], cost_basis_per_share)),
                   total_value |->
                       TotalAfter(before.total_value, shares[1] * current_price[1]),
                   total_cost |->
                       IF Truthy(cost_basis_per_share)
                       THEN TotalAfter(before.total_cost,
                                       shares[1] * cost_basis_per_share[1])
                       ELSE before.total_cost]

CalculateMetrics(items, mk) == MetricsAfter(items, Len(items), mk)

\* the answers of the provider that a run of the steps has met
MarketOf(f) ==
    [dividends |-> IF f.dividends = None THEN ProviderError
                   ELSE ProviderData(f.dividends[1]),
     yield |-> ProviderData(f.yield_rate),
     price |-> ProviderData([currentPrice |-> None, regularMarketPrice |-> None,
                             previousClose |-> f.price])]

FetchedMarket ==
    [symbol \in Symbols |->
        IF symbol \in DOMAIN fetched THEN MarketOf(fetched[symbol])
        ELSE [dividends |-> ProviderError, yield |-> ProviderError,
              price |-> ProviderError]]

\* the functions give what the steps of calculate_dividends and of
\* calculate_metrics return
CalculateAsFunction ==
    /\ pc = "done" =>
          LET r == CalculateDividends(portfolio, months_ahead, FetchedMarket, now)
          IN  ret = <<r.monthly_totals, r.dividend_details, r.stock_annual_dividends>>
    /\ pc = "metrics_done" =>
          LET r == CalculateMetrics(portfolio, FetchedMarket)
          IN  mret = <<r.metrics, r.total_value, r.total_cost>>

----------------------------------------------------------------------------
(* The same positions in two orders *)

OrderSymbols == <<"AAA", "BBB", "CCC">>

PriceOfHundred ==
    ProviderData([currentPrice |-> Some(10000), regularMarketPrice |-> None,
                  previousClose |-> None])

\* what the provider may answer for a symbol: a history of two or of three
\* payments, or no history, with or without a yield rate and a price
OrderAnswers ==
    {[dividends |-> ProviderData(History(<<Midnight(60), Midnight(30)>>)),
      yield |-> ProviderData(None), price |-> PriceOfHundred],
     [dividends |-> ProviderData(History(<<Midnight(91), Midnight(60), Midnight(30)>>)),
      yield |-> ProviderData(None), price |-> ProviderError],
     [dividends |-> ProviderError,
      yield |-> ProviderData(Some(2)), price |-> PriceOfHundred],
     [dividends |-> ProviderData(<<>>),
      yield |-> ProviderError, price |-> PriceOfHundred]}

Markets == [{OrderSymbols[i] : i \in 1..Len(OrderSymbols)} -> OrderAnswers]

\* the positions: the third may have no shares
OrderPositions ==
    {<<<<"AAA", [shares |-> Some(5), cost_basis |-> Some(8000)]>>,
       <<"BBB", [shares |-> Some(10), cost_basis |-> None]>>,
       <<"CCC", [shares |-> sh, cost_basis |-> Some(0)]>>>> :
        sh \in {None, Some(10)}}

OrdersOf(n) == {f \in [1..n -> 1..n] : \A i, j \in 1..n : i # j => f[i] # f[j]}

Permuted(items, f) == [i \in 1..Len(items) |-> items[f[i]]]

InitOrder ==
    /\ now = Now
    /\ dividends = None
    /\ months_ahead = 0
    /\ pc = "order_start"
    /\ InitLocals
    /\ InitNoCalc
    /\ InitLater

\* the portfolio in two orders, one answer of the provider per symbol, one now
CallOrder ==
    /\ pc = "order_start"
    /\ market' \in Markets
    /\ \E items \in OrderPositions, f \in OrdersOf(Len(OrderSymbols)),
          months \in {1, MaxCalcMonths} :
          calls' = <<[portfolio |-> items, months_ahead |-> months],
                     [portfolio |-> Permuted(items, f), months_ahead |-> months]>>
    /\ returns' = <<>>
    /\ pc' = "order"
    /\ UNCHANGED cache
    /\ UNCHANGED <<now, dividends, months_ahead, result>>
    /\ UNCHANGED projVars
    /\ UNCHANGED calcVars
    /\ UNCHANGED metricVars
    /\ UNCHANGED storeVars
    /\ UNCHANGED raceVars
    /\ UNCHANGED trendVars

\* calculate_dividends and calculate_metrics run on the next of the two orders
RunOrder ==
    /\ pc = "order"
    /\ LET k == Len(returns) + 1
       IN  /\ returns' =
                 Append(returns,
                        [dividends |-> CalculateDividends(calls[k].portfolio,
                                                          calls[k].months_ahead,
                                                          market, now),
                         metrics |-> CalculateMetrics(calls[k].portfolio, market)])
           /\ pc' = IF k = Len(calls) THEN "order_done" ELSE "order"
    /\ UNCHANGED <<calls, market, cache>>
    /\ UNCHANGED <<now, dividends, months_ahead, result>>
    /\ UNCHANGED projVars
    /\ UNCHANGED calcVars
    /\ UNCHANGED metricVars
    /\ UNCHANGED storeVars
    /\ UNCHANGED raceVars
    /\ UNCHANGED trendVars

NextOrder == CallOrder \/ RunOrder

SpecOrder == InitOrder /\ [][NextOrder]_vars

----------------------------------------------------------------------------
(* api/dividend_api.py with the cache: get_dividend_data, get_current_price *)

CACHE_EXPIRY_HOURS == 24
PRICE_CACHE_EXPIRY_MINUTES == 15

MinutesPerTick == (24 * 60) \div TicksPerDay

\* what a call did: it returned a value, or an exception left it
Returned(v) == [raised |-> "none", value |-> v]
Raised(exception) == [raised |-> exception, value |-> None]

\* a cache file: there is none; open() is refused; its text is no JSON; its
\* JSON is a list; or its JSON is an object, with or without a timestamp that
\* fromisoformat accepts and with or without the payload key
AbsentEntry == [kind |-> "absent", ts_kind |-> "missing", time |-> 0, payload |-> None]
UnreadableEntry ==
    [kind |-> "unreadable", ts_kind |-> "missing", time |-> 0, payload |-> None]
NotJsonEntry == [kind |-> "not_json", ts_kind |-> "missing", time |-> 0, payload |-> None]
NotObjectEntry ==
    [kind |-> "not_object", ts_kind |-> "missing", time |-> 0, payload |-> None]
ObjectEntry(ts_kind, time, payload) ==
    [kind |-> "object", ts_kind |-> ts_kind, time |-> time, payload |-> payload]

\* _is_cache_valid
IsCacheValid(entry, expiry_minutes, clock) ==
    IF entry.kind = "absent" THEN Returned(FALSE)
    ELSE IF entry.kind = "unreadable" THEN Raised("PermissionError")
    ELSE IF entry.kind = "not_json" THEN Returned(FALSE)
    ELSE IF entry.kind = "not_object" THEN Raised("TypeError")
    ELSE IF entry.ts_kind # "time" THEN Returned(FALSE)
    ELSE Returned((clock - entry.time) * MinutesPerTick < expiry_minutes)

\* _load_dividends_from_cache, and lines 96-103 of _load_price_from_cache
LoadFromCache(entry) ==
    IF entry.kind = "absent" THEN Returned(None)
    ELSE IF entry.kind = "unreadable" THEN Raised("PermissionError")
    ELSE IF entry.kind = "not_json" THEN Returned(None)
    ELSE IF entry.kind = "not_object" THEN Raised("TypeError")
    ELSE Returned(entry.payload)

\* _save_dividends_to_cache, _save_price_to_cache
SavedEntry(clock, payload) == ObjectEntry("time", clock, Some(payload))

CallResult(outcome, c) == [outcome |-> outcome, cache |-> c]

\* get_dividend_data(symbol, use_cache) on the cache c; `writable` tells
\* whether the cache file can be written
GetDividendDataCached(c, use_cache, writable, answer, clock) ==
    LET valid == IF use_cache
                 THEN IsCacheValid(c.dividends, CACHE_EXPIRY_HOURS * 60, clock)
                 ELSE Returned(FALSE)
        filtered == SinceCutoff(answer.data, clock - Days(365 * DIVIDEND_HISTORY_YEARS))
    IN  IF valid.raised # "none" THEN CallResult(Raised(valid.raised), c)
        ELSE IF valid.value THEN CallResult(LoadFromCache(c.dividends), c)
        ELSE IF answer.error THEN CallResult(Returned(None), c)
        ELSE IF answer.data = <<>> THEN CallResult(Returned(None), c)
        ELSE IF ~use_cache THEN CallResult(Returned(Some(filtered)), c)
        ELSE IF ~writable THEN CallResult(Returned(None), c)
        ELSE CallResult(Returned(Some(filtered)),
                        [c EXCEPT !.dividends = SavedEntry(clock, filtered)])

\* _load_price_from_cache
LoadPriceFromCache(entry, clock) ==
    LET valid == IsCacheValid(entry, PRICE_CACHE_EXPIRY_MINUTES, clock)
    IN  IF valid.raised # "none" THEN Raised(valid.raised)
        ELSE IF ~valid.value THEN Returned(None)
        ELSE LoadFromCache(entry)

\* get_current_price(symbol, use_cache) on the cache c
GetCurrentPriceCached(c, use_cache, writable, info, clock) ==
    LET cached == IF use_cache THEN LoadPriceFromCache(c.price, clock)
                  ELSE Returned(None)
        price == GetCurrentPrice(info)
    IN  IF cached.raised # "none" THEN CallResult(Raised(cached.raised), c)
        ELSE IF cached.value # None THEN CallResult(Returned(cached.value), c)
        ELSE IF info.error THEN CallResult(Returned(None), c)
        ELSE IF ~Truthy(price) THEN CallResult(Returned(price), c)
        ELSE IF ~use_cache THEN CallResult(Returned(price), c)
        ELSE IF ~writable THEN CallResult(Returned(None), c)
        ELSE CallResult(Returned(price),
                        [c EXCEPT !.price = SavedEntry(clock, price[1])])

\* the times of the timestamps: now, 24 minutes ago, two days ago
CacheTimes == {Now, Now - 1, Now - Days(2)}

EntriesWith(payload) ==
    {AbsentEntry, UnreadableEntry, NotJsonEntry, NotObjectEntry,
     ObjectEntry("missing", 0, Some(payload)), ObjectEntry("invalid", 0, Some(payload))}
    \cup {ObjectEntry("time", t, pl) : t \in CacheTimes, pl \in {None, Some(payload)}}

CachedHistory == History(<<Midnight(60), Midnight(30)>>)

CacheDividendAnswers ==
    {ProviderError, ProviderData(<<>>),
     ProviderData(History(<<Midnight(800), Midnight(91), Midnight(30)>>))}

CachePriceAnswers ==
    {ProviderError, PriceOfHundred,
     ProviderData([currentPrice |-> None, regularMarketPrice |-> None,
                   previousClose |-> None])}

InitCache ==
    /\ now = Now
    /\ dividends = None
    /\ months_ahead = 0
    /\ pc = "cache_start"
    /\ InitLocals
    /\ InitNoCalc
    /\ InitMetrics
    /\ InitNoStore
    /\ InitNoRace
    /\ InitNoTrend
    /\ calls = <<>>
    /\ market = <<>>
    /\ returns = <<>>
    /\ cache \in [dividends : EntriesWith(CachedHistory), price : EntriesWith(9900)]

\* a call get_dividend_data(symbol, use_cache)
CallGetDividendData ==
    /\ pc = "cache_start"
    /\ \E use_cache \in BOOLEAN, writable \in BOOLEAN, answer \in CacheDividendAnswers :
          LET r == GetDividendDataCached(cache, use_cache, writable, answer, now)
          IN  /\ calls' = <<[function |-> "get_dividend_data", use_cache |-> use_cache,
                             writable |-> writable, entry |-> cache.dividends]>>
              /\ market' = answer
              /\ returns' = <<r.outcome>>
              /\ cache' = r.cache
    /\ pc' = "cache_done"
    /\ UNCHANGED <<now, dividends, months_ahead, result>>
    /\ UNCHANGED projVars
    /\ UNCHANGED calcVars
    /\ UNCHANGED metricVars
    /\ UNCHANGED storeVars
    /\ UNCHANGED raceVars
    /\ UNCHANGED trendVars

\* a call get_current_price(symbol, use_cache)
CallGetCurrentPrice ==
    /\ pc = "cache_start"
    /\ \E use_cache \in BOOLEAN, writable \in BOOLEAN, info \in CachePriceAnswers :
          LET r == GetCurrentPriceCached(cache, use_cache, writable, info, now)
          IN  /\ calls' = <<[function |-> "get_current_price", use_cache |-> use_cache,
                             writable |-> writable, entry |-> cache.price]>>
              /\ market' = info
              /\ returns' = <<r.outcome>>
              /\ cache' = r.cache
    /\ pc' = "cache_done"
    /\ UNCHANGED <<now, dividends, months_ahead, result>>
    /\ UNCHANGED projVars
    /\ UNCHANGED calcVars
    /\ UNCHANGED metricVars
    /\ UNCHANGED storeVars
    /\ UNCHANGED raceVars
    /\ UNCHANGED trendVars

NextCache == CallGetDividendData \/ CallGetCurrentPrice

SpecCache == InitCache /\ [][NextCache]_vars

\* the entry cannot be read as a cache entry
ReadFails(entry) ==
    \/ entry.kind \in {"unreadable", "not_json", "not_object"}
    \/ entry.kind = "object" /\ (entry.ts_kind # "time" \/ entry.payload = None)

\* the entry is served from the cache
IsHit(entry, expiry_minutes) ==
    /\ ~ReadFails(entry)
    /\ entry.kind = "object"
    /\ (now - entry.time) * MinutesPerTick < expiry_minutes

ExpiryOf(function) ==
    IF function = "get_dividend_data" THEN CACHE_EXPIRY_HOURS * 60
    ELSE PRICE_CACHE_EXPIRY_MINUTES

\* what the call returns when there is no cache entry and the cache is writable
WithoutEntry(function) ==
    IF function = "get_dividend_data" THEN Returned(GetDividendData(market, now))
    ELSE Returned(GetCurrentPrice(market))

\* C25: a cache entry that cannot be read, or a cache file that cannot be
\* written, is a cache miss: get_dividend_data and get_current_price raise
\* nothing and return what they return from the provider when there is no
\* cache entry.
C25_CacheFailureIsMiss ==
    (/\ pc = "cache_done"
     /\ calls[1].use_cache
     /\ ~IsHit(calls[1].entry, ExpiryOf(calls[1].function))
     /\ ReadFails(calls[1].entry) \/ ~calls[1].writable)
        => returns[1] = WithoutEntry(calls[1].function)

\* the same for the entries whose text is no JSON or whose timestamp is
\* missing or invalid, with a cache that can be written
C25_UnparsableEntryIsMiss ==
    (/\ pc = "cache_done"
     /\ calls[1].use_cache
     /\ calls[1].writable
     /\ \/ calls[1].entry.kind = "not_json"
        \/ calls[1].entry.kind = "object" /\ calls[1].entry.ts_kind # "time")
        => returns[1] = WithoutEntry(calls[1].function)

\* an exception reaches the caller
C25_NothingRaised ==
    pc = "cache_done" => returns[1].raised = "none"

----------------------------------------------------------------------------
(* core/portfolio.py: load_portfolio.  A text is a sequence of characters;  *)
(* a field of a csv.DictReader row is Some(text), or None when the row is   *)
(* shorter than the header.                                                 *)

RECURSIVE LStrip(_)
LStrip(text) ==
    IF text # <<>> /\ text[1] = " " THEN LStrip(Tail(text)) ELSE text

RECURSIVE RStrip(_)
RStrip(text) ==
    IF text # <<>> /\ text[Len(text)] = " "
    THEN RStrip(SubSeq(text, 1, Len(text) - 1))
    ELSE text

\* str.strip()
Strip(text) == RStrip(LStrip(text))

\* str.replace(c, "") for every c of chars
Without(text, chars) == SelectSeq(text, LAMBDA c : c \notin chars)

\* str.lower() and str.upper(), for the letters of the sample texts
LowerChar(c) == IF c = "N" THEN "n" ELSE IF c = "A" THEN "a" ELSE c
UpperChar(c) == IF c = "a" THEN "A" ELSE IF c = "b" THEN "B" ELSE c
Lower(text) == [i \in 1..Len(text) |-> LowerChar(text[i])]
Upper(text) == [i \in 1..Len(text) |-> UpperChar(text[i])]

\* float(cleaned), for texts that are all digits or hold no digit at all
FloatOf(cleaned) ==
    IF IsNumber(cleaned) THEN Returned(Some(NumberOf(cleaned)))
    ELSE Raised("ValueError")

\* parse_number
ParseNumber(value) ==
    IF value = None THEN Raised("AttributeError")
    ELSE LET cleaned == Without(Strip(value[1]), {",", "$"})
         IN  IF cleaned = <<>> \/ Lower(cleaned) \in {<<"n", "/", "a">>, <<"-", "-">>}
             THEN Returned(None)
             ELSE FloatOf(cleaned)

\* extract_ticker, for a text without "(EXCHANGE:TICKER)"
ExtractTicker(raw_symbol) == Upper(Strip(raw_symbol))

\* f.strip().lstrip("﻿"), for the column names of the samples
NormalizedName(name) == IF name = " symbol " THEN "symbol" ELSE name

\* _detect_format
DetectFormat(fieldnames) ==
    LET normalized == {NormalizedName(fieldnames[i]) : i \in 1..Len(fieldnames)}
    IN  IF {"Symbol", "Quantity"} \subseteq normalized THEN "fidelity"
        ELSE IF {"symbol", "shares"} \subseteq normalized THEN "simple"
        ELSE "unknown"

\* name in row
HasKey(fieldnames, name) == \E i \in 1..Len(fieldnames) : fieldnames[i] = name

\* row[name] of a row that has the key
Field(fieldnames, cells, name) ==
    LET i == CHOOSE k \in 1..Len(fieldnames) : fieldnames[k] = name
    IN  IF i <= Len(cells) THEN Some(cells[i]) ELSE None

\* row.get(name) or ""
FieldOrEmpty(fieldnames, cells, name) ==
    IF ~HasKey(fieldnames, name) THEN Some(<<>>)
    ELSE IF Field(fieldnames, cells, name) = None THEN Some(<<>>)
    ELSE Field(fieldnames, cells, name)

\* _load_simple_format, lines 120-135: one row
SimpleRow(before, fieldnames, cells) ==
    IF ~HasKey(fieldnames, "symbol") THEN Raised("KeyError")
    ELSE IF Field(fieldnames, cells, "symbol") = None THEN Raised("AttributeError")
    ELSE IF Strip(Field(fieldnames, cells, "symbol")[1]) = <<>> THEN Returned(before)
    ELSE IF ~HasKey(fieldnames, "shares") THEN Raised("KeyError")
    ELSE LET symbol == ExtractTicker(Strip(Field(fieldnames, cells, "symbol")[1]))
             shares == ParseNumber(Field(fieldnames, cells, "shares"))
             has_cost == HasKey(fieldnames, "cost_basis")
             cost_cell == IF has_cost THEN Field(fieldnames, cells, "cost_basis")
                          ELSE Some(<<>>)
             cost_basis == IF Strip(cost_cell[1]) # <<>> THEN ParseNumber(cost_cell)
                           ELSE Returned(None)
         IN  IF shares.raised # "none" THEN shares
             ELSE IF shares.value = None THEN Returned(before)
             ELSE IF cost_cell = None THEN Raised("AttributeError")
             ELSE IF cost_basis.raised # "none" THEN cost_basis
             ELSE Returned(SetKey(before, symbol,
                                  [shares |-> shares.value,
                                   cost_basis |-> cost_basis.value]))

\* _load_fidelity_format, lines 70-110: one row
FidelityRow(before, fieldnames, cells) ==
    LET raw == Strip(FieldOrEmpty(fieldnames, cells, "Symbol")[1])
        symbol == ExtractTicker(Without(raw, {"*"}))
        quantity == ParseNumber(FieldOrEmpty(fieldnames, cells, "Quantity"))
        current_value == ParseNumber(FieldOrEmpty(fieldnames, cells, "Current Value"))
        current_price == ParseNumber(FieldOrEmpty(fieldnames, cells, "Last Price"))
        cost_basis == ParseNumber(FieldOrEmpty(fieldnames, cells, "Average Cost Basis"))
        cost_basis_total == ParseNumber(FieldOrEmpty(fieldnames, cells, "Cost Basis Total"))
        shares == IF quantity.value = None THEN current_value.value ELSE quantity.value
    IN  IF raw = <<>> THEN Returned(before)
        ELSE IF quantity.raised # "none" THEN quantity
        ELSE IF current_value.raised # "none" THEN current_value
        ELSE IF shares = None THEN Returned(before)
        ELSE IF current_price.raised # "none" THEN current_price
        ELSE IF cost_basis.raised # "none" THEN cost_basis
        ELSE IF cost_basis_total.raised # "none" THEN cost_basis_total
        ELSE Returned(SetKey(before, symbol,
                             [shares |-> shares,
                              cost_basis |-> cost_basis.value,
                              current_price |-> current_price.value,
                              current_value |-> current_value.value,
                              cost_basis_total |-> cost_basis_total.value]))

\* for row in reader, over the first n rows
RECURSIVE RowsAfter(_, _, _, _)
RowsAfter(fmt, fieldnames, rows, n) ==
    IF n = 0 THEN Returned(<<>>)
    ELSE LET before == RowsAfter(fmt, fieldnames, rows, n - 1)
         IN  IF before.raised # "none" THEN before
             ELSE IF fmt = "fidelity" THEN FidelityRow(before.value, fieldnames, rows[n])
             ELSE SimpleRow(before.value, fieldnames, rows[n])

\* load_portfolio
LoadPortfolio(file) ==
    LET fmt == DetectFormat(file.header)
        loaded == RowsAfter(fmt, file.header, file.rows, Len(file.rows))
    IN  IF ~file.exists THEN Raised("PortfolioFileNotFoundError")
        ELSE IF fmt = "unknown" THEN Raised("PortfolioInvalidFormatError")
        ELSE IF loaded.raised # "none" THEN loaded
        ELSE IF loaded.value = <<>> THEN Raised("PortfolioEmptyError")
        ELSE loaded

MaxRows == 2

\* the header lines of the sample files; <<>> is a file without any line
Headers ==
    {<<"symbol", "shares", "cost_basis">>, <<"symbol", "shares">>,
     <<" symbol ", "shares">>, <<"Symbol", "Quantity">>, <<"ticker", "qty">>, <<>>}

\* the rows of the sample files
RowSamples ==
    {<<<<"A", "A", "A">>, <<"5">>, <<"8", "0">>>>,
     <<<<"b", "b", "b">>, <<"$", "1", ",", "0", "0", "0">>>>,
     <<<<"A", "A", "A">>, <<"a", "b", "c">>, <<"8", "0">>>>,
     <<<<"A", "A", "A">>, <<"N", "/", "A">>, <<"8", "0">>>>,
     <<<<"A", "A", "A">>>>,
     <<<<" ">>, <<"5">>, <<"8", "0">>>>,
     <<<<"b", "b", "b">>, <<"5">>, <<"x">>>>,
     <<<<"A", "A", "A">>, <<>>, <<>>>>,
     <<<<"b", "b", "b">>, <<" ", "5", " ">>, <<>>>>}

PortfolioFiles ==
    {[exists |-> FALSE, header |-> <<>>, rows |-> <<>>]} \cup
    UNION {[exists : {TRUE}, header : Headers, rows : [1..n -> RowSamples]] :
              n \in 0..MaxRows}

InitLoad ==
    /\ now = Now
    /\ dividends = None
    /\ months_ahead = 0
    /\ pc = "load_start"
    /\ InitLocals
    /\ InitNoCalc
    /\ InitLater

\* a call load_portfolio(portfolio_path)
CallLoadPortfolio ==
    /\ pc = "load_start"
    /\ \E file \in PortfolioFiles :
          /\ calls' = <<[function |-> "load_portfolio", file |-> file]>>
          /\ returns' = <<LoadPortfolio(file)>>
    /\ pc' = "load_done"
    /\ UNCHANGED <<market, cache>>
    /\ UNCHANGED <<now, dividends, months_ahead, result>>
    /\ UNCHANGED projVars
    /\ UNCHANGED calcVars
    /\ UNCHANGED metricVars
    /\ UNCHANGED storeVars
    /\ UNCHANGED raceVars
    /\ UNCHANGED trendVars

NextLoad == CallLoadPortfolio

SpecLoad == InitLoad /\ [][NextLoad]_vars

\* the text is a number once blanks, "," and "$" are taken away
UsableNumber(text) == IsNumber(Without(Strip(text), {",", "$"}))

\* a row with a symbol and a usable shares value, in the first two columns
ValidRow(cells) ==
    /\ Len(cells) >= 2
    /\ Strip(cells[1]) # <<>>
    /\ UsableNumber(cells[2])

ValidRows(file) == {i \in 1..Len(file.rows) : ValidRow(file.rows[i])}

\* C26: load_portfolio returns a non-empty portfolio, or raises
\* PortfolioFileNotFoundError exactly when the path does not exist,
\* PortfolioInvalidFormatError exactly when the header is of neither schema,
\* PortfolioEmptyError exactly when no valid row remains; nothing else is
\* raised, a row with an unusable shares value is skipped.
C26_PortfolioOrItsError ==
    pc = "load_done" =>
        LET file == calls[1].file
            out == returns[1]
            known == DetectFormat(file.header) # "unknown"
        IN  IF ~file.exists THEN out.raised = "PortfolioFileNotFoundError"
            ELSE IF ~known THEN out.raised = "PortfolioInvalidFormatError"
            ELSE IF ValidRows(file) = {} THEN out.raised = "PortfolioEmptyError"
            ELSE out.raised = "none" /\ out.value # <<>>

\* the same for the files whose header is unpadded and whose rows are
\* complete, with only numbers, blanks and n/a in the number columns
Clean(file) ==
    /\ \A i \in 1..Len(file.header) : NormalizedName(file.header[i]) = file.header[i]
    /\ \A i \in 1..Len(file.rows) :
          /\ Len(file.rows[i]) >= Len(file.header)
          /\ \A k \in 2..Len(file.rows[i]) :
                ParseNumber(Some(file.rows[i][k])).raised = "none"

C26_CleanFilePortfolioOrItsError ==
    (pc = "load_done" /\ Clean(calls[1].file)) =>
        LET file == calls[1].file
            out == returns[1]
            known == DetectFormat(file.header) # "unknown"
        IN  IF ~file.exists THEN out.raised = "PortfolioFileNotFoundError"
            ELSE IF ~known THEN out.raised = "PortfolioInvalidFormatError"
            ELSE IF ValidRows(file) = {} THEN out.raised = "PortfolioEmptyError"
            ELSE out.raised = "none" /\ out.value # <<>>

\* an error that is no PortfolioError leaves load_portfolio
C26_OnlyPortfolioErrors ==
    pc = "load_done" =>
        returns[1].raised \in {"none", "PortfolioFileNotFoundError",
                               "PortfolioInvalidFormatError", "PortfolioEmptyError"}

----------------------------------------------------------------------------
(* calculate_metrics: the cost basis fields *)

\* the position of a symbol that calculate_metrics reported
MetricPosition(sym) ==
    portfolio[CHOOSE i \in 1..Len(portfolio) : portfolio[i][1] = sym][2]

\* C27: for a priced symbol, cost_basis, gain_loss and gain_loss_pct are
\* non-null exactly when the position's cost basis per share is given, for
\* every given value >= 0, with gain_loss = current_value - shares * cost
\* basis per share; they are null when the cost basis is absent.
C27_CostFieldsWhenKnown ==
    pc = "metrics_done" =>
        \A sym \in DOMAIN mret[1] :
            LET m == mret[1][sym]
                position == MetricPosition(sym)
            IN  IF position.cost_basis # None
                THEN /\ m.cost_basis # None
                     /\ m.gain_loss # None
                     /\ m.gain_loss_pct # None
                     /\ m.gain_loss[1] =
                           m.current_value[1] - position.shares[1] * position.cost_basis[1]
                ELSE /\ m.cost_basis = None
                     /\ m.gain_loss = None
                     /\ m.gain_loss_pct = None

\* the same for the positions whose cost basis per share is absent or
\* greater than 0
C27_CostFieldsWhenPositive ==
    pc = "metrics_done" =>
        \A sym \in DOMAIN mret[1] :
            LET m == mret[1][sym]
                position == MetricPosition(sym)
            IN  IF position.cost_basis # None /\ position.cost_basis[1] > 0
                THEN /\ m.cost_basis # None
                     /\ m.gain_loss # None
                     /\ m.gain_loss_pct # None
                     /\ m.gain_loss[1] =
                           m.current_value[1] - position.shares[1] * position.cost_basis[1]
                ELSE position.cost_basis = None =>
                        /\ m.cost_basis = None
                        /\ m.gain_loss = None
                        /\ m.gain_loss_pct = None

\* a priced position with a cost basis per share of 0 has null cost fields
C27_ZeroCostBasisIsNull ==
    pc = "metrics_done" =>
        \A sym \in DOMAIN mret[1] :
            MetricPosition(sym).cost_basis = Some(0) => mret[1][sym].gain_loss = None

\* a position with a cost basis of 80.00 per share was reported with its gain
C27_GainReported ==
    /\ pc = "metrics_done"
    /\ \E sym \in DOMAIN mret[1] :
          /\ MetricPosition(sym).cost_basis = Some(8000)
          /\ mret[1][sym].gain_loss # None

----------------------------------------------------------------------------
(* the snapshot store: what a call changes *)

\* the files that are made, removed or rewritten between two directories
ChangedFiles(before, after) ==
    {name \in DOMAIN before \cup DOMAIN after :
        IF name \in DOMAIN before /\ name \in DOMAIN after
        THEN before[name] # after[name]
        ELSE TRUE}

\* the days list_historical_dates returns
ListedDays(store) ==
    LET listed == ListHistoricalDates(store)
    IN  {listed[i] : i \in 1..Len(listed)}

\* C28: save_historical for date d changes only the record of d's day: the
\* records of all other days load as before and the listed dates change by
\* at most adding d; check_historical_exists, load_historical and
\* list_historical_dates make, change or remove no record.
C28_OnlyTheDayOfTheSave ==
    [][IF last_op' # None /\ last_op'[1].name = "save_historical"
       THEN LET d == last_op'[1].run_date
            IN  /\ ChangedFiles(files, files') \subseteq {GetHistoricalFilename(d)}
                /\ \A other \in RunDates :
                      GetHistoricalFilename(other) # GetHistoricalFilename(d) =>
                         /\ LoadHistorical(files', other) = LoadHistorical(files, other)
                         /\ CheckHistoricalExists(files', other) =
                               CheckHistoricalExists(files, other)
                /\ LET before == ListedDays(files)
                       after == ListedDays(files')
                   IN  /\ before \subseteq after
                       /\ after \subseteq before \cup {MidnightOf(d)}
       ELSE ChangedFiles(files, files') = {}]_vars

\* tomorrow was saved after today, and today's record is the one saved
C28_SavedBesideAnotherDay ==
    /\ LastCall("save_historical")
    /\ last_op[1].run_date = Now + Days(1)
    /\ GetHistoricalFilename(Now) \in DOMAIN saved
    /\ LoadHistorical(files, Now) =
          Loaded(HistoricalData(saved[GetHistoricalFilename(Now)].results,
                                saved[GetHistoricalFilename(Now)].portfolio_path,
                                saved[GetHistoricalFilename(Now)].run_date))

----------------------------------------------------------------------------
(* the snapshot store: a save that fails while writing *)

\* the tokens json.dump has handed to the file when the error is raised:
\* none, or the first fields of the record
FailurePoints == {0, 3}

\* open(filepath, "w") empties the file, json.dump writes until the error,
\* and the with statement closes the file with what was written
SaveHistoricalCut(store, results, portfolio_path, run_date, written) ==
    SetKey(store, GetHistoricalFilename(run_date),
           SubSeq(JsonDump(HistoricalData(results, portfolio_path, run_date)),
                  1, written))

\* a call save_historical(results, portfolio_path, run_date) whose
\* json.dump raises
SaveFails ==
    /\ pc = "store"
    /\ \E i \in 1..Len(ResultsSamples), path \in PortfolioPaths, run_date \in RunDates,
          written \in FailurePoints :
          /\ files' = SaveHistoricalCut(files, ResultsSamples[i], path, run_date, written)
          /\ last_op' = Some([name |-> "save_historical raised", run_date |-> run_date,
                              out |-> GetHistoricalFilename(run_date)])
    /\ UNCHANGED saved
    /\ UNCHANGED engineVars
    /\ UNCHANGED besideVars

NextStoreFail == Save \/ SaveFails \/ Load \/ CoreLoad \/ Exists \/ List

\* data/historical holds no file, or the record without total_value
InitStoreFail ==
    /\ InitStore
    /\ files \in {StoreWith({}), StoreWith({2})}

SpecStoreFail == InitStoreFail /\ [][NextStoreFail]_vars

\* the step is a failed save for a day whose snapshot loads
FailedSaveOverSnapshot ==
    /\ last_op' # None
    /\ last_op'[1].name = "save_historical raised"
    /\ LoadHistorical(files, last_op'[1].run_date).kind = "data"

\* C29: a save_historical that fails after the file is opened, for a day
\* that has a snapshot, leaves the store unchanged: the snapshot of the day
\* is still present and load_historical still returns it.
C29_FailedSaveChangesNothing ==
    [][FailedSaveOverSnapshot =>
          /\ files' = files
          /\ LoadHistorical(files', last_op'[1].run_date) =
                LoadHistorical(files, last_op'[1].run_date)]_vars

\* what the failed save does: the file of the day is kept but no longer
\* loads, and every other file is as before
C29_FailedSaveCutsTheFile ==
    [][FailedSaveOverSnapshot =>
          LET d == last_op'[1].run_date
          IN  /\ CheckHistoricalExists(files', d)
              /\ LoadHistorical(files', d) = CorruptError
              /\ CoreLoadHistorical(files', d) = NotFound
              /\ ChangedFiles(files, files') = {GetHistoricalFilename(d)}]_vars

\* a day saved by this run no longer loads after a failed save
C29_SavedDayLost ==
    /\ LastCall("save_historical raised")
    /\ GetHistoricalFilename(last_op[1].run_date) \in DOMAIN saved
    /\ LoadHistorical(files, last_op[1].run_date) = CorruptError

----------------------------------------------------------------------------
(* estimate_future_dividends: two horizons over one history *)

\* the while loop of lines 80-83 ends: the step is not zero, or the first
\* computed date is after now (with a step of zero and a date that is not
\* after now nothing is retained and the date never passes projection_end)
LoopEnds(d, clock) ==
    IF TooShort(d) THEN TRUE
    ELSE IF Intervals(SortByDate(d[1])) = <<>> THEN TRUE
    ELSE IF AvgInterval(Intervals(SortByDate(d[1]))) > 0 THEN TRUE
    ELSE SortByDate(d[1])[Len(d[1])][1] > clock

InitHorizon ==
    /\ now = Now
    /\ dividends = None
    /\ months_ahead = 0
    /\ pc = "horizon_start"
    /\ InitLocals
    /\ InitNoCalc
    /\ InitLater

\* the calls estimate_future_dividends(dividends, m) and
\* estimate_future_dividends(dividends, m2) at the same now, for a history
\* on which the calls return
CallHorizons ==
    /\ pc = "horizon_start"
    /\ \E d \in ShortHistories, m \in 0..MaxMonths, m2 \in 0..MaxMonths :
          /\ LoopEnds(d, now)
          /\ m <= m2
          /\ dividends' = d
          /\ calls' = <<[function |-> "estimate_future_dividends", months_ahead |-> m],
                        [function |-> "estimate_future_dividends", months_ahead |-> m2]>>
          /\ returns' = <<EstimateFutureDividends(d, now, m),
                          EstimateFutureDividends(d, now, m2)>>
    /\ pc' = "horizon_done"
    /\ UNCHANGED <<market, cache>>
    /\ UNCHANGED <<now, months_ahead, result>>
    /\ UNCHANGED projVars
    /\ UNCHANGED calcVars
    /\ UNCHANGED metricVars
    /\ UNCHANGED storeVars
    /\ UNCHANGED raceVars
    /\ UNCHANGED trendVars

NextHorizon == CallHorizons

SpecHorizon == InitHorizon /\ [][NextHorizon]_vars

\* s is a prefix of t
IsPrefix(s, t) == Len(s) <= Len(t) /\ s = SubSeq(t, 1, Len(s))

\* C30: for a fixed history and a fixed now and 0 <= m <= m2, the payments
\* returned for months_ahead = m are a prefix of the payments returned for
\* months_ahead = m2, and the frequency and the average interval returned
\* are the same.
C30_HorizonMonotone ==
    pc = "horizon_done" =>
        /\ calls[1].months_ahead <= calls[2].months_ahead
        /\ IsPrefix(returns[1][1], returns[2][1])
        /\ returns[1][2] = returns[2][2]
        /\ returns[1][3] = returns[2][3]

\* the longer horizon returned the payment of the shorter one and one more
C30_OneMorePayment ==
    /\ pc = "horizon_done"
    /\ Len(returns[1][1]) = 1
    /\ Len(returns[2][1]) = 2
    /\ returns[1][1][1] = returns[2][1][1]

\* both horizons returned the same MAX_PROJECTED_DIVIDENDS payments
C30_BothCapped ==
    /\ pc = "horizon_done"
    /\ calls[1].months_ahead < calls[2].months_ahead
    /\ Len(returns[1][1]) = MAX_PROJECTED_DIVIDENDS
    /\ returns[1][1] = returns[2][1]

=============================================================================
